---- MODULE Spec2Model ----
(***************************************************************************)
(* EvoWorld 2D: the simulation engine (SimulationEngine.update and the     *)
(* operations it calls, src/unnamed/part_003), the spatial index           *)
(* (core/SpatialHash.ts) and the creature physics (systems/Creature.ts).   *)
(*                                                                         *)
(* Scales.  The program computes with floating point numbers over a        *)
(* 4000 x 4000 world.  The model keeps the program's structure and         *)
(* replaces the magnitudes by small integers: lengths are counted in       *)
(* half cells, energy in EnergyUnit-sized steps, diet in fifths.  Every    *)
(* Math.random() draw is an input chosen with \E.  Array indices are       *)
(* 1-based here, the program's index k is k+1 in the model.                *)
(***************************************************************************)
EXTENDS Integers, Sequences, FiniteSets, TLC

(***************************************************************************)
(* Bounds of the model (scaled magnitudes and exploration limits).         *)
(***************************************************************************)
GRID_CELL_SIZE == 2
WorldCols == 3
WorldRows == 2
BIOME_WATER_WIDTH == 2
INITIAL_POPULATION == 2
MAX_POPULATION == 3
MAX_FOOD == 2
INITIAL_FOOD == 1
EnergyUnit == 50
SENSE_RADIUS == 2
EAT_RANGE == 1
ATTACK_RANGE == 1
MAX_AGE == 2
MaxTime == 2
MaxId == 8
MaxOut == 1
BIOME_FOREST_WIDTH == 1
BeachBefore == 1
BeachAfter == 1
AmbientSpawns == 1
SafetyBelow == 1
OceanMin == 1
SafetySpawns == 1
SubsetMax == 1
WaterSpawns == 2
ExistCost == 1
SuffocationCost == 1

\* WORLD_WIDTH and WORLD_HEIGHT are whole multiples of GRID_CELL_SIZE, as
\* 4000 is of 100 in constants.ts
WORLD_WIDTH == WorldCols * GRID_CELL_SIZE
WORLD_HEIGHT == WorldRows * GRID_CELL_SIZE

\* Energies of constants.ts, in EnergyUnit steps
STARTING_ENERGY == 300 \div EnergyUnit
ENERGY_GAIN_FOOD == 100 \div EnergyUnit
ENERGY_GAIN_MEAT_MULTIPLIER == 1
\* BASE_GENOME: reproThreshold, size, mouthSize; the floor of size in reproduce
REPRO_THRESHOLD == 150 \div EnergyUnit
BASE_SIZE == 8
MOUTH_SIZE == 3
SIZE_MIN == 3
\* the mutation metric in hundredths: SPECIATION_THRESHOLD 0.5; a size change of
\* VARIANCE 0.1; a diet change of one fifth, weighted 2; a limb count change, 0.2
SPECIATION_THRESHOLD == 50
SizeMetric == 10
DietMetric == 40
LimbMetric == 20

\* constants.ts:6-7
GRID_COLS == (WORLD_WIDTH + GRID_CELL_SIZE - 1) \div GRID_CELL_SIZE
GRID_ROWS == (WORLD_HEIGHT + GRID_CELL_SIZE - 1) \div GRID_CELL_SIZE
Cells == 0 .. (GRID_COLS * GRID_ROWS - 1)

NoId == 0 - 1

Max(a, b) == IF a >= b THEN a ELSE b
Min(a, b) == IF a <= b THEN a ELSE b
Abs(a) == IF a >= 0 THEN a ELSE 0 - a

(***************************************************************************)
(* Array helpers: indexOf, splice(k, 1), filter.                           *)
(***************************************************************************)
IndexOf(s, v) ==
    IF \E k \in 1 .. Len(s) : s[k] = v
    THEN CHOOSE k \in 1 .. Len(s) : s[k] = v /\ \A j \in 1 .. (k - 1) : s[j] # v
    ELSE 0

RemoveAt(s, k) == SubSeq(s, 1, k - 1) \o SubSeq(s, k + 1, Len(s))

\* const idx = cell.indexOf(c); if (idx > -1) cell.splice(idx, 1);
RemoveFirst(s, v) == IF IndexOf(s, v) = 0 THEN s ELSE RemoveAt(s, IndexOf(s, v))

\* findIndex(c => c.id === id), 0 when there is none
FindIndexById(cs, id) ==
    IF \E k \in 1 .. Len(cs) : cs[k].id = id
    THEN CHOOSE k \in 1 .. Len(cs) : cs[k].id = id /\ \A j \in 1 .. (k - 1) : cs[j].id # id
    ELSE 0

Ids(cs) == {cs[k].id : k \in 1 .. Len(cs)}

(***************************************************************************)
(* The grid of the engine.                                                 *)
(***************************************************************************)
getGridIndex(x, y) ==
    LET col == x \div GRID_CELL_SIZE
        row == y \div GRID_CELL_SIZE
        c == Max(0, Min(GRID_COLS - 1, col))
        r == Max(0, Min(GRID_ROWS - 1, row))
    IN  c + r * GRID_COLS

\* the centre first, then the eight neighbours row by row, those inside the grid
NeighborOffsets == << <<0 - 1, 0 - 1>>, <<0, 0 - 1>>, <<1, 0 - 1>>,
                      <<0 - 1, 0>>, <<1, 0>>,
                      <<0 - 1, 1>>, <<0, 1>>, <<1, 1>> >>

getNeighborIndices(centerIdx) ==
    LET col == centerIdx % GRID_COLS
        row == centerIdx \div GRID_COLS
        Ok(k) == /\ col + NeighborOffsets[k][1] >= 0
                 /\ col + NeighborOffsets[k][1] < GRID_COLS
                 /\ row + NeighborOffsets[k][2] >= 0
                 /\ row + NeighborOffsets[k][2] < GRID_ROWS
        At(k) == (col + NeighborOffsets[k][1]) + (row + NeighborOffsets[k][2]) * GRID_COLS
        F[k \in 0 .. 8] ==
            IF k = 0 THEN <<centerIdx>>
            ELSE IF Ok(k) THEN Append(F[k - 1], At(k)) ELSE F[k - 1]
    IN  F[8]

\* the ids stored in the cells idxs, in scan order
RECURSIVE CellContents(_, _)
CellContents(grid, idxs) ==
    IF idxs = << >> THEN << >>
    ELSE grid[Head(idxs)] \o CellContents(grid, Tail(idxs))

EmptyGrid == [c \in Cells |-> << >>]

\* the entries of a grid, and the ids of the objects they refer to
Slots(grid) == UNION {{<<c, k>> : k \in 1 .. Len(grid[c])} : c \in Cells}
GridIds(grid) == {grid[ck[1]][ck[2]] : ck \in Slots(grid)}

\* dist(a, b) squared: d < r is compared as d*d < r*r, exactly on the lattice
distSq(a, b) == (a.x - b.x) * (a.x - b.x) + (a.y - b.y) * (a.y - b.y)

(***************************************************************************)
(* The world: the fields of SimulationEngine, as one record so that the    *)
(* methods compose.  critters and food are the arrays; the grids hold the  *)
(* ids of the objects the program's cells hold references to; species is   *)
(* the registry Map; crashed records an uncaught TypeError.                *)
(***************************************************************************)
Pos(x, y) == [x |-> x, y |-> y]

\* a reference held by a grid cell or a local variable: the object if it is
\* still in the array
CritterOf(w, id) == w.critters[FindIndexById(w.critters, id)]
FoodOf(w, id) == w.food[FindIndexById(w.food, id)]
LiveRefs(cs, ids) == SelectSeq(ids, LAMBDA id : FindIndexById(cs, id) # 0)

\* Genome fields the engine model tracks: diet in fifths (0 .. 5), size class
\* (with its drift) and the sense radius, which reproduce of the engine model
\* copies.  The other traits stay at BASE_GENOME; their mutations only add to
\* the mutation metric (input `extra` of reproduce).
DietOne == 5
isCarnivore(c) == 2 * c.genome.diet > DietOne
\* applyGeneticDrift multiplies the size of a live critter by 1 +- 0.005 at
\* most: the genome carries the net drift of the size, in steps of which
\* DriftUnit make one size class; MaxDrift caps the steps the live critters carry
DriftUnit == 4
MaxDrift == 1
DriftSteps == {0 - 1, 0}
FineSize(g) == g.size * DriftUnit + g.drift
BASE_GENOME == [diet |-> 0, size |-> BASE_SIZE, drift |-> 0, senseRadius |-> SENSE_RADIUS]

\* the variant of spawnCritter that leaves the species count alone
spawnCritterUncounted(w, x, y, speciesId, genome) ==
    LET idx == getGridIndex(x, y)
        critter == [id |-> w.nextId, speciesId |-> speciesId, position |-> Pos(x, y),
                    energy |-> STARTING_ENERGY, age |-> 0, genome |-> genome,
                    state |-> "wandering", targetId |-> NoId, gridIndex |-> idx]
    IN  [w EXCEPT !.nextId = @ + 1,
                  !.critters = Append(@, critter),
                  !.critterGrid[idx] = Append(@, critter.id)]

spawnCritter(w, x, y, speciesId, genome) ==
    LET idx == getGridIndex(x, y)
        critter == [id |-> w.nextId, speciesId |-> speciesId, position |-> Pos(x, y),
                    energy |-> STARTING_ENERGY, age |-> 0, genome |-> genome,
                    state |-> "wandering", targetId |-> NoId, gridIndex |-> idx]
    IN  [w EXCEPT !.nextId = @ + 1,
                  !.critters = Append(@, critter),
                  !.critterGrid[idx] = Append(@, critter.id),
                  !.species = [s \in DOMAIN @ |->
                                 IF s = speciesId THEN [@[s] EXCEPT !.count = @ + 1]
                                 ELSE @[s]]]

\* spawnRandomFood, spawnFoodInZone and the inline creation in growPlants
spawnFood(w, x, y) ==
    LET idx == getGridIndex(x, y)
        f == [id |-> w.nextId, position |-> Pos(x, y), energyValue |-> ENERGY_GAIN_FOOD,
              gridIndex |-> idx]
    IN  [w EXCEPT !.nextId = @ + 1,
                  !.food = Append(@, f),
                  !.foodGrid[idx] = Append(@, f.id)]

\* the variant of killCritter that leaves the critter in its grid cell
killCritterKeepCell(w, index) ==
    IF index \notin 1 .. Len(w.critters)
    THEN [w EXCEPT !.crashed = TRUE]
    ELSE LET c == w.critters[index]
         IN  [w EXCEPT !.species = [s \in DOMAIN @ |->
                                      IF s = c.speciesId THEN [@[s] EXCEPT !.count = @ - 1]
                                      ELSE @[s]],
                       !.critters = RemoveAt(@, index)]

\* the variant of killCritter that leaves the species count as it is
killCritterKeepCount(w, index) ==
    IF index \notin 1 .. Len(w.critters)
    THEN [w EXCEPT !.crashed = TRUE]
    ELSE LET c == w.critters[index]
         IN  [w EXCEPT !.critterGrid[c.gridIndex] = RemoveFirst(@, c.id),
                       !.critters = RemoveAt(@, index)]

\* const c = this.critters[index] is undefined for an index outside the array,
\* and c.gridIndex then throws a TypeError: crashed
killCritter(w, index) ==
    IF index \notin 1 .. Len(w.critters)
    THEN [w EXCEPT !.crashed = TRUE]
    ELSE LET c == w.critters[index]
         IN  [w EXCEPT !.critterGrid[c.gridIndex] = RemoveFirst(@, c.id),
                       !.species = [s \in DOMAIN @ |->
                                      IF s = c.speciesId THEN [@[s] EXCEPT !.count = @ - 1]
                                      ELSE @[s]],
                       !.critters = RemoveAt(@, index)]

\* The scan `if (d < senseRadius && d < minDist)` over cands, in order: the index
\* of the first candidate at the least distance below radius, 0 if there is none.
NearestIdx(cands, from, radius) ==
    LET q == {k \in 1 .. Len(cands) : distSq(from, cands[k].position) < radius * radius}
        d(k) == distSq(from, cands[k].position)
    IN  IF q = {} THEN 0
        ELSE CHOOSE k \in q : \A j \in q : d(k) < d(j) \/ (d(k) = d(j) /\ k <= j)

\* the objects referenced from the 3x3 block of cells around gridIndex
NeighborCritters(w, gridIndex) ==
    LET refs == LiveRefs(w.critters, CellContents(w.critterGrid, getNeighborIndices(gridIndex)))
    IN  [k \in 1 .. Len(refs) |-> CritterOf(w, refs[k])]

NeighborFood(w, gridIndex) ==
    LET refs == LiveRefs(w.food, CellContents(w.foodGrid, getNeighborIndices(gridIndex)))
    IN  [k \in 1 .. Len(refs) |-> FoodOf(w, refs[k])]

\* the id of the nearest predator, NoId for null
findNearestPredator(w, critter) ==
    LET quals == SelectSeq(NeighborCritters(w, critter.gridIndex),
                           LAMBDA other : /\ other.id # critter.id
                                          /\ isCarnivore(other)
                                          /\ FineSize(other.genome) >= FineSize(critter.genome))
        k == NearestIdx(quals, critter.position, critter.genome.senseRadius)
    IN  IF k = 0 THEN NoId ELSE quals[k].id

combatAdvantage(critter, other) ==
    FineSize(critter.genome) + MOUTH_SIZE * 2 * DriftUnit >
        FineSize(other.genome)
            + (IF isCarnivore(other) THEN MOUTH_SIZE * DriftUnit ELSE 0)

PreyCandidates(w, critter) ==
    SelectSeq(NeighborCritters(w, critter.gridIndex),
              LAMBDA other : /\ other.id # critter.id
                             /\ other.speciesId # critter.speciesId
                             /\ combatAdvantage(critter, other))

\* nearestPrey.genome.size * 10, in energy steps
MeatBonus(prey) == (prey.genome.size * 10) \div EnergyUnit

\* huntPrey for the critter at index i
huntPrey(w, i) ==
    LET critter == w.critters[i]
        quals == PreyCandidates(w, critter)
        k == NearestIdx(quals, critter.position, critter.genome.senseRadius)
    IN  IF k # 0
        THEN LET nearestPrey == quals[k]
                 w1 == [w EXCEPT !.critters[i].state = "hunting",
                                 !.critters[i].targetId = nearestPrey.id]
             IN  IF distSq(critter.position, nearestPrey.position) < ATTACK_RANGE * ATTACK_RANGE
                 THEN LET w2 == [w1 EXCEPT !.critters[i].energy =
                                     @ + nearestPrey.energy * ENERGY_GAIN_MEAT_MULTIPLIER
                                       + MeatBonus(nearestPrey)]
                          preyIndex == FindIndexById(w2.critters, nearestPrey.id)
                          w3 == IF preyIndex # 0 THEN killCritter(w2, preyIndex) ELSE w2
                          me == FindIndexById(w3.critters, critter.id)
                      IN  [w3 EXCEPT !.critters[me].targetId = NoId]
                 ELSE w1
        ELSE [w EXCEPT !.critters[i].state = "wandering"]

\* the variant of seekFood that leaves the energy of the eaten item in place
seekFoodKeepValue(w, i) ==
    LET critter == w.critters[i]
        quals == SelectSeq(NeighborFood(w, critter.gridIndex), LAMBDA f : f.energyValue > 0)
        k == NearestIdx(quals, critter.position, critter.genome.senseRadius)
    IN  IF k # 0
        THEN LET nearestFood == quals[k]
                 w1 == [w EXCEPT !.critters[i].state = "seeking_food",
                                 !.critters[i].targetId = nearestFood.id]
             IN  IF distSq(critter.position, nearestFood.position) < EAT_RANGE * EAT_RANGE
                 THEN [w1 EXCEPT !.critters[i].energy = @ + nearestFood.energyValue,
                                 !.foodGrid[nearestFood.gridIndex] = RemoveFirst(@, nearestFood.id),
                                 !.critters[i].targetId = NoId]
                 ELSE w1
        ELSE [w EXCEPT !.critters[i].state = "wandering"]

\* seekFood for the critter at index i
seekFood(w, i) ==
    LET critter == w.critters[i]
        quals == SelectSeq(NeighborFood(w, critter.gridIndex), LAMBDA f : f.energyValue > 0)
        k == NearestIdx(quals, critter.position, critter.genome.senseRadius)
    IN  IF k # 0
        THEN LET nearestFood == quals[k]
                 fi == FindIndexById(w.food, nearestFood.id)
                 w1 == [w EXCEPT !.critters[i].state = "seeking_food",
                                 !.critters[i].targetId = nearestFood.id]
             IN  IF distSq(critter.position, nearestFood.position) < EAT_RANGE * EAT_RANGE
                 THEN [w1 EXCEPT !.critters[i].energy = @ + nearestFood.energyValue,
                                 !.food[fi].energyValue = 0,
                                 !.foodGrid[nearestFood.gridIndex] = RemoveFirst(@, nearestFood.id),
                                 !.critters[i].targetId = NoId]
                 ELSE w1
        ELSE [w EXCEPT !.critters[i].state = "wandering"]

\* val * 0.4 and val * 0.5 of reproduce, rounded down to the energy step
Times04(e) == (e * 4) \div 10
Times05(e) == (e * 5) \div 10

\* mutate(val, cfg, min) on the size, d = 0 when the mutation is not triggered
mutateSize(val, d) == IF d # 0 THEN Max(SIZE_MIN, val + d) ELSE val
\* the diet block of reproduce: clamped to [0, 1]
mutateDiet(val, d) == IF d # 0 THEN Max(0, Min(DietOne, val + d)) ELSE val
mutationMetricOf(dSize, dDiet, limb) ==
    SizeMetric * Abs(dSize) + DietMetric * Abs(dDiet) + LimbMetric * limb

\* the variant of the new record that copies the parent's generation
NewSpeciesRecordSameGeneration(w, parentSpeciesId, time) ==
    [parentId |-> IF parentSpeciesId \in DOMAIN w.species THEN parentSpeciesId ELSE NoId,
     generation |-> IF parentSpeciesId \in DOMAIN w.species
                    THEN w.species[parentSpeciesId].generation ELSE 0,
     count |-> 0, extinct |-> FALSE, firstAppearedAt |-> time]

\* this.species.set(newSpeciesId, {...}) of reproduce
NewSpeciesRecord(w, parentSpeciesId, time) ==
    [parentId |-> IF parentSpeciesId \in DOMAIN w.species THEN parentSpeciesId ELSE NoId,
     generation |-> (IF parentSpeciesId \in DOMAIN w.species
                     THEN w.species[parentSpeciesId].generation ELSE 0) + 1,
     count |-> 0, extinct |-> FALSE, firstAppearedAt |-> time]

\* the variant of the population guard that never refuses
populationNeverFull(w) == FALSE

\* if (this.critters.length >= Constants.MAX_POPULATION) return;
populationFull(w) == Len(w.critters) >= MAX_POPULATION

\* the variant of the speciation test with >=
speciatesAtThreshold(mutationMetric) == mutationMetric >= SPECIATION_THRESHOLD

\* if (mutationMetric > Constants.SPECIATION_THRESHOLD)
speciates(mutationMetric) == mutationMetric > SPECIATION_THRESHOLD

\* The speciation block of reproduce: the registry after this.species.set(...),
\* before the offspring is spawned.
speciation(w, i, time, mutationMetric) ==
    LET parent == w.critters[i]
        newSpeciesId == w.nextId
    IN  IF speciates(mutationMetric)
        THEN [w EXCEPT !.species =
                 [s \in DOMAIN @ \cup {newSpeciesId} |->
                     IF s = newSpeciesId
                     THEN NewSpeciesRecord(w, parent.speciesId, time)
                     ELSE @[s]]]
        ELSE w

\* the variant in which the offspring keeps the energy spawnCritter gave it
babyEnergyAtBirth(parent) == STARTING_ENERGY

\* const babyEnergy = parent.energy * 0.4
babyEnergy(parent) == Times04(parent.energy)

\* const newGenome = { ...parent.genome } and the mutations of its traits: the
\* size keeps the drift the parent collected unless the floor of mutate cuts it
mutateGenome(genome, dSize, dDiet) ==
    LET size == mutateSize(genome.size, dSize)
        floored == dSize # 0 /\ FineSize([genome EXCEPT !.size = size])
                                    < SIZE_MIN * DriftUnit
    IN  [genome EXCEPT !.diet = mutateDiet(genome.diet, dDiet),
                       !.size = IF floored THEN SIZE_MIN ELSE size,
                       !.drift = IF floored THEN 0 ELSE genome.drift]

\* reproduce(parent) below the population guard.  Inputs: dSize, dDiet in
\* {-1, 0, 1}, limb in {0, 1} (the limb count mutation fired), bx the offset of
\* the offspring's position.
reproduceBelowCap(w, i, time, dSize, dDiet, limb, bx) ==
    LET parent == w.critters[i]
        newGenome == mutateGenome(parent.genome, dSize, dDiet)
        mutationMetric == mutationMetricOf(dSize, dDiet, limb)
        childSpeciesId == IF speciates(mutationMetric) THEN w.nextId
                          ELSE parent.speciesId
        w1 == speciation(w, i, time, mutationMetric)
        w2 == [w1 EXCEPT !.critters[i].energy = @ - Times05(@)]
        w3 == spawnCritter(w2, parent.position.x + bx, parent.position.y,
                           childSpeciesId, newGenome)
    IN  [w3 EXCEPT !.critters[Len(w3.critters)].energy = babyEnergy(parent)]

\* the variant of reproduce that charges the parent before the guard
reproduceChargeFirst(w, i, time, dSize, dDiet, limb, bx) ==
    IF populationFull(w) THEN [w EXCEPT !.critters[i].energy = @ - Times05(@)]
    ELSE reproduceBelowCap(w, i, time, dSize, dDiet, limb, bx)

\* reproduce(parent) for the critter at index i
reproduce(w, i, time, dSize, dDiet, limb, bx) ==
    IF populationFull(w) THEN w
    ELSE reproduceBelowCap(w, i, time, dSize, dDiet, limb, bx)

\* move(critter) for the critter at index j, dx the velocity after friction
move(w, j, dx) ==
    LET critter == w.critters[j]
        nx == critter.position.x + dx
        newGridIndex == getGridIndex(nx, critter.position.y)
        w1 == [w EXCEPT !.critters[j].position.x = nx]
    IN  IF newGridIndex # critter.gridIndex
        THEN [w1 EXCEPT !.critterGrid[critter.gridIndex] = RemoveFirst(@, critter.id),
                        !.critters[j].gridIndex = newGridIndex,
                        !.critterGrid[newGridIndex] = Append(@, critter.id)]
        ELSE w1

\* enforceBoundaries of the engine changes the velocity only, which is an input
\* of move here: the position and the grid are as move left them
enforceBoundaries(w, j) == w

\* the tick cost: existence, plus suffocation for the water genome on land
MetabolismCost(critter) ==
    ExistCost + (IF critter.position.x < BIOME_WATER_WIDTH THEN 0 ELSE SuffocationCost)

calculateMetabolism(w, j) == [w EXCEPT !.critters[j].energy = @ - MetabolismCost(w.critters[j])]

\* the drift steps the live critters carry
RECURSIVE Drifted(_)
Drifted(cs) ==
    IF cs = << >> THEN 0
    ELSE (IF Head(cs).genome.drift < 0 THEN 0 - Head(cs).genome.drift
          ELSE Head(cs).genome.drift) + Drifted(Tail(cs))

\* applyGeneticDrift: if (Math.random() > GENETIC_DRIFT_RATE) return, else
\* critter.genome.size *= drift(), on the genome of the live critter and with
\* no floor; drift = 0 when the draw returns early
applyGeneticDrift(w, j, drift) ==
    IF drift # 0
    THEN [w EXCEPT !.critters[j].genome.drift = @ + drift]
    ELSE w

\* applyGeneticDrift, move, enforceBoundaries and calculateMetabolism of the
\* loop body, for the critter that was at index i when the iteration began:
\* wd is the world decideAction left, in which the critter (the object the
\* local `critter` refers to) may be at another index.
BodyAfterDecide(w, i, wd, rnd) ==
    LET id == w.critters[i].id
        j == FindIndexById(wd.critters, id)
        w1 == applyGeneticDrift(wd, j, rnd.drift)
        w2 == move(w1, j, rnd.dx)
        w3 == enforceBoundaries(w2, j)
    IN  calculateMetabolism(w3, j)

\* if (critter.energy <= 0 || critter.age > 4000)
deathCheck(critter) == critter.energy <= 0 \/ critter.age > MAX_AGE

\* The rest of the loop body of update after decideAction: the death check is
\* made on the critter, the removal on the loop index i.
AfterDecide(w, i, wd, rnd) ==
    LET w4 == BodyAfterDecide(w, i, wd, rnd)
        critter == CritterOf(w4, w.critters[i].id)
    IN  IF deathCheck(critter)
        THEN killCritter(w4, i)
        ELSE w4

\* critter.age++
Aged(w, i) == [w EXCEPT !.critters[i].age = @ + 1]

(***************************************************************************)
(* growPlants.  Its random draws are the fields of `in`: ambient (the x of *)
(* each ambient spawn), scrub, beach (the two coins), scrubX, beachX,      *)
(* safetyX, parent (an index into food), bern (the Bernoulli trial on the  *)
(* fractional part of growthChance) and off (the offspring's offsets).     *)
(***************************************************************************)
scrubStart == BIOME_WATER_WIDTH + BIOME_FOREST_WIDTH
beachStart == BIOME_WATER_WIDTH - BeachBefore
beachEnd == BIOME_WATER_WIDTH + BeachAfter
PosY == 0

\* for (let i = 0; i < 10; i++) if (food.length < MAX_FOOD) spawnRandomFood()
RECURSIVE AmbientLoop(_, _, _)
AmbientLoop(w, xs, k) ==
    IF k > AmbientSpawns THEN w
    ELSE AmbientLoop(IF Len(w.food) < MAX_FOOD THEN spawnFood(w, xs[k], PosY) ELSE w, xs, k + 1)

\* for (let i = 0; i < 30; i++) spawnFoodInZone(5, BIOME_WATER_WIDTH - 5)
RECURSIVE SafetyLoop(_, _, _)
SafetyLoop(w, x, k) ==
    IF k > SafetySpawns THEN w ELSE SafetyLoop(spawnFood(w, x, PosY), x, k + 1)

oceanFoodCount(w) ==
    Cardinality({k \in 1 .. Len(w.food) : w.food[k].position.x < BIOME_WATER_WIDTH})

\* Math.min(50, guaranteedSpawns + (Math.random() < remainderChance ? 1 : 0)):
\* BIOME_WATER_GROWTH is whole, the other growth chances are below 1
spawnsToAttempt(parent, bern) ==
    IF parent.position.x > beachStart /\ parent.position.x < beachEnd
    THEN (IF bern THEN 1 ELSE 0)
    ELSE IF parent.position.x < BIOME_WATER_WIDTH THEN WaterSpawns
    ELSE (IF bern THEN 1 ELSE 0)

\* the loop over k of one parent
RECURSIVE SeedLoop(_, _, _, _, _)
SeedLoop(w, parent, n, off, k) ==
    IF k > n \/ Len(w.food) >= MAX_FOOD THEN w
    ELSE LET newX == parent.position.x + off[k]
         IN  SeedLoop(IF newX > 0 /\ newX < WORLD_WIDTH THEN spawnFood(w, newX, PosY) ELSE w,
                      parent, n, off, k + 1)

\* the loop over the sampled parents
RECURSIVE SpreadLoop(_, _, _, _)
SpreadLoop(w, in, subsetSize, k) ==
    IF k > subsetSize \/ Len(w.food) >= MAX_FOOD THEN w
    ELSE LET parent == w.food[((in.parent + k) % Len(w.food)) + 1]
         IN  SpreadLoop(SeedLoop(w, parent, spawnsToAttempt(parent, in.bern), in.off, 1),
                        in, subsetSize, k + 1)

growPlants(w, in) ==
    LET w1 == AmbientLoop(w, in.ambient, 1)
        w2 == IF in.scrub THEN spawnFood(w1, in.scrubX, PosY) ELSE w1
        w3 == IF in.beach THEN spawnFood(w2, in.beachX, PosY) ELSE w2
    IN  IF Len(w3.food) >= MAX_FOOD THEN w3
        ELSE LET w4 == IF Len(w3.food) < SafetyBelow /\ oceanFoodCount(w3) < OceanMin
                       THEN SafetyLoop(w3, in.safetyX, 1) ELSE w3
             IN  SpreadLoop(w4, in, Min(Len(w4.food), SubsetMax), 1)

GrowInputs ==
    [ambient : [1 .. AmbientSpawns -> {BIOME_WATER_WIDTH - 1}],
     scrub : BOOLEAN, scrubX : {WORLD_WIDTH - 1},
     beach : BOOLEAN, beachX : {beachStart},
     safetyX : {BIOME_WATER_WIDTH - 1},
     parent : {0}, bern : BOOLEAN,
     off : [1 .. WaterSpawns -> {1}]]

(***************************************************************************)
(* reset() on the engine w.  xs are the positions drawn for the initial    *)
(* critters, fxs for the initial food scatter.  nextId is not reset.  A    *)
(* reset() leaves no trace of an earlier uncaught error.                   *)
(***************************************************************************)
rootSpeciesId == 0
RootSpecies == [parentId |-> NoId, generation |-> 0, count |-> 0, extinct |-> FALSE,
                firstAppearedAt |-> 0]

RECURSIVE SpawnInitial(_, _, _)
SpawnInitial(w, xs, k) ==
    IF k > INITIAL_POPULATION THEN w
    ELSE SpawnInitial(spawnCritter(w, xs[k], PosY, rootSpeciesId, BASE_GENOME), xs, k + 1)

RECURSIVE ScatterFood(_, _, _)
ScatterFood(w, fxs, k) ==
    IF k > INITIAL_FOOD THEN w ELSE ScatterFood(spawnFood(w, fxs[k], PosY), fxs, k + 1)

\* the variant of reset that does not clear the two grids
resetKeepGrids(w, xs, fxs) ==
    LET w0 == [w EXCEPT !.critters = << >>, !.food = << >>,
                        !.species = (rootSpeciesId :> RootSpecies),
                        !.crashed = FALSE]
    IN  ScatterFood(SpawnInitial(w0, xs, 1), fxs, 1)

reset(w, xs, fxs) ==
    LET w0 == [w EXCEPT !.critters = << >>, !.food = << >>,
                        !.species = (rootSpeciesId :> RootSpecies),
                        !.critterGrid = EmptyGrid, !.foodGrid = EmptyGrid,
                        !.crashed = FALSE]
    IN  ScatterFood(SpawnInitial(w0, xs, 1), fxs, 1)

\* the engine as its field initialisers and initGrids() leave it
NewEngine == [critters |-> << >>, food |-> << >>, species |-> << >>,
              critterGrid |-> EmptyGrid, foodGrid |-> EmptyGrid,
              nextId |-> 0, crashed |-> FALSE]

ResetInputsX == [1 .. INITIAL_POPULATION -> 0 .. (BIOME_WATER_WIDTH - 1)]
ResetInputsF == [1 .. INITIAL_FOOD -> {BIOME_WATER_WIDTH - 1}]

(***************************************************************************)
(* The state: the engine's fields, the position of update() in its loop    *)
(* (pc, i), and lastRepro, the values reproduce() computed in the step     *)
(* just taken (NoRepro after any other step).                              *)
(***************************************************************************)
VARIABLES time, critters, food, species, critterGrid, foodGrid, nextId, crashed,
          pc, i, lastRepro, lastMove, lastStep, tickLog, terrain

vars == <<time, critters, food, species, critterGrid, foodGrid, nextId, crashed,
          pc, i, lastRepro, lastMove, lastStep, tickLog, terrain>>

World == [critters |-> critters, food |-> food, species |-> species,
          critterGrid |-> critterGrid, foodGrid |-> foodGrid,
          nextId |-> nextId, crashed |-> crashed]

NoRepro == [refused |-> FALSE, parentId |-> NoId]
NoMove == [op |-> "none"]
\* terrain: the static state of TerrainSystem and the calls in progress in it
NoTerrain == [initialized |-> FALSE]
\* lastStep: what the step just taken did (a reset, or one iteration of the
\* loop of update()); tickLog: the ages at the start of the current tick and
\* how many iterations of its loop have handled each critter
NoStep == [op |-> "none"]
NoTick == [ages |-> << >>, seen |-> << >>]

SetWorld(w) ==
    /\ critters' = w.critters
    /\ food' = w.food
    /\ species' = w.species
    /\ critterGrid' = w.critterGrid
    /\ foodGrid' = w.foodGrid
    /\ nextId' = w.nextId
    /\ crashed' = w.crashed

\* A population the engine can hold at the start of a tick, later in a run:
\* root-species herbivores and carnivores of a species that split off the
\* root (reproductions whose diet mutations passed 0.5, one of them with a
\* metric above the threshold), all born in the same tick (age a), with
\* energy e, the only survivors of their tick and of every later one; with
\* young, the last one is the offspring of one of them, born in the tick
\* before (age 0).
CarnSpecies == 2
EvolvedTime == 0
Herbivore(id, x, e, a) ==
    [id |-> id, speciesId |-> rootSpeciesId, position |-> Pos(x, PosY), energy |-> e,
     age |-> a, genome |-> BASE_GENOME, state |-> "wandering", targetId |-> NoId,
     gridIndex |-> getGridIndex(x, PosY)]
Carnivore(id, x, e, a) ==
    [id |-> id, speciesId |-> CarnSpecies, position |-> Pos(x, PosY), energy |-> e,
     age |-> a, genome |-> [BASE_GENOME EXCEPT !.diet = (DietOne \div 2) + 1],
     state |-> "wandering", targetId |-> NoId, gridIndex |-> getGridIndex(x, PosY)]

EvolvedWorld(kinds, xs, e, a, young) ==
    LET n == Len(kinds)
        ageOf(k) == IF young /\ k = n THEN 0 ELSE a
        cs == [k \in 1 .. n |->
                 IF kinds[k] = "carn" THEN Carnivore(CarnSpecies + k, xs[k], e, ageOf(k))
                 ELSE Herbivore(CarnSpecies + k, xs[k], e, ageOf(k))]
        members(sp) == Cardinality({k \in 1 .. n : cs[k].speciesId = sp})
    IN  [critters |-> cs, food |-> << >>,
         species |-> (rootSpeciesId :> [RootSpecies EXCEPT !.count = members(rootSpeciesId),
                                                          !.extinct = members(rootSpeciesId) = 0])
                     @@ (CarnSpecies :> [parentId |-> rootSpeciesId, generation |-> 1,
                                         count |-> members(CarnSpecies),
                                         extinct |-> members(CarnSpecies) = 0,
                                         firstAppearedAt |-> 0]),
         critterGrid |-> [c \in Cells |->
                            LET here == SelectSeq(cs, LAMBDA r : r.gridIndex = c)
                            IN  [k \in 1 .. Len(here) |-> here[k].id]],
         foodGrid |-> EmptyGrid,
         nextId |-> CarnSpecies + n + 1, crashed |-> FALSE]

EvolvedWorlds ==
    {EvolvedWorld(kinds, xs, e, a, young) :
        kinds \in UNION {[1 .. n -> {"herb", "carn"}] : n \in 2 .. MAX_POPULATION},
        xs \in [1 .. MAX_POPULATION -> {BIOME_WATER_WIDTH - 1, BIOME_WATER_WIDTH}],
        e \in {REPRO_THRESHOLD}, a \in {0, MAX_AGE}, young \in BOOLEAN}

InitWorld(w) ==
    /\ critters = w.critters
    /\ food = w.food
    /\ species = w.species
    /\ critterGrid = w.critterGrid
    /\ foodGrid = w.foodGrid
    /\ nextId = w.nextId
    /\ crashed = w.crashed

\* the constructor's reset(), or a population later in a run
Init ==
    /\ pc = "idle"
    /\ i = 0
    /\ lastRepro = NoRepro
    /\ lastMove = NoMove
    /\ terrain = NoTerrain
    /\ lastStep = NoStep
    /\ tickLog = NoTick
    /\ \/ /\ time = 0
          /\ \E xs \in ResetInputsX, fxs \in ResetInputsF : InitWorld(reset(NewEngine, xs, fxs))
       \/ /\ time = EvolvedTime
          /\ \E w \in EvolvedWorlds : InitWorld(w)

Reset ==
    /\ pc \in {"idle", "crashed"}
    /\ nextId < MaxId
    /\ \E xs \in ResetInputsX, fxs \in ResetInputsF :
          SetWorld(reset(World, xs, fxs))
    /\ time' = 0
    /\ pc' = "idle"
    /\ i' = 0
    /\ lastRepro' = NoRepro
    /\ lastStep' = [op |-> "reset",
                    before |-> Ids(critters) \cup Ids(food)
                                 \cup GridIds(critterGrid) \cup GridIds(foodGrid)]
    /\ tickLog' = NoTick
    /\ UNCHANGED <<lastMove, terrain>>

\* update(): this.time++; this.growPlants(); and the loop's initialisation
BeginTick ==
    /\ pc = "idle"
    /\ time < MaxTime
    /\ nextId < MaxId
    /\ time' = time + 1
    /\ \E in \in GrowInputs : SetWorld(growPlants(World, in))
    /\ pc' = "loop"
    /\ i' = Len(critters)
    /\ lastRepro' = NoRepro
    /\ lastStep' = [op |-> "begin"]
    /\ tickLog' = [ages |-> [id \in Ids(critters) |-> CritterOf(World, id).age],
                   seen |-> [id \in Ids(critters) |-> 0]]
    /\ UNCHANGED <<lastMove, terrain>>

(***************************************************************************)
(* One iteration of the loop of update(), for critters[i]: one action per  *)
(* branch of decideAction, each followed by the rest of the loop body.     *)
(***************************************************************************)
BabyOffsets == {0}
SizeSteps == {0, 1}
DietSteps == {0 - 1, 0, 1}
LimbSteps == {0, 1}
Velocities == {0, 1}
\* the random draws of one iteration: the velocity after friction and the drift
Draws == [dx : Velocities, drift : DriftSteps]
InWorldRange(x) == x >= 0 - MaxOut /\ x <= WORLD_WIDTH - 1 + MaxOut

InLoop == pc = "loop" /\ i >= 1 /\ i <= Len(critters)

\* the world after critter.age++
W0 == Aged(World, i)

Fleeing == ~isCarnivore(critters[i]) /\ findNearestPredator(W0, W0.critters[i]) # NoId
Reproducing == ~Fleeing /\ critters[i].energy > REPRO_THRESHOLD

Finish(wd, rnd) ==
    LET w == AfterDecide(W0, i, wd, rnd)
    IN  /\ InWorldRange(critters[i].position.x + rnd.dx)
        /\ rnd.drift # 0 => Drifted(critters) < MaxDrift
        /\ SetWorld(w)
        /\ pc' = IF w.crashed THEN "crashed" ELSE "loop"
        /\ i' = i - 1
        /\ time' = time

\* what the iteration did: the critter as it was before (age++ not yet
\* applied) and as decideAction left it, the entities present before and after
\* decideAction, the critters decideAction removed, the outcome of the death
\* check on the critter and the critter that killCritter(i) removed.
Present(w) == Ids(w.critters) \cup {w.food[k].id : k \in {n \in 1 .. Len(w.food) :
                                                          w.food[n].energyValue > 0}}
StepRecord(branch, wd, rnd) ==
    LET id == critters[i].id
        w4 == BodyAfterDecide(W0, i, wd, rnd)
        struck == Ids(critters) \ Ids(wd.critters)
        dying == deathCheck(CritterOf(w4, id))
    IN  [op |-> "step", branch |-> branch, id |-> id,
         before |-> critters[i],
         decided |-> CritterOf(wd, id),
         present |-> Present(World),
         presentAfter |-> Present(wd),
         struck |-> [p \in struck |-> CritterOf(World, p)],
         dying |-> dying,
         victim |-> IF dying /\ i <= Len(w4.critters) THEN w4.critters[i].id ELSE NoId]

Observe(branch, wd, rnd) ==
    /\ lastStep' = StepRecord(branch, wd, rnd)
    /\ tickLog' = [tickLog EXCEPT !.seen =
                      [id \in DOMAIN @ |-> IF id = critters[i].id THEN @[id] + 1 ELSE @[id]]]

StepFlee ==
    /\ InLoop
    /\ Fleeing
    /\ \E rnd \in Draws :
          LET wd == [W0 EXCEPT !.critters[i].state = "fleeing"]
          IN  Finish(wd, rnd) /\ Observe("flee", wd, rnd)
    /\ lastRepro' = NoRepro
    /\ UNCHANGED <<lastMove, terrain>>

\* what reproduce() did for critters[i]: w is the world before it, wd after it
ReproRecord(w, wd, metric) ==
    IF Len(wd.critters) = Len(w.critters)
    THEN [refused |-> TRUE, parentId |-> w.critters[i].id,
          worldBefore |-> w, worldAfter |-> wd]
    ELSE [refused |-> FALSE, parentId |-> w.critters[i].id,
          parentSpecies |-> w.critters[i].speciesId,
          energyBefore |-> w.critters[i].energy,
          parentEnergy |-> wd.critters[i].energy,
          babyId |-> wd.critters[Len(wd.critters)].id,
          babyEnergy |-> wd.critters[Len(wd.critters)].energy,
          babySpecies |-> wd.critters[Len(wd.critters)].speciesId,
          metric |-> metric,
          speciesBefore |-> w.species,
          speciesSet |-> speciation(w, i, time, metric).species,
          speciesAfter |-> wd.species]

StepReproduce ==
    /\ InLoop
    /\ Reproducing
    /\ \E dSize \in SizeSteps, dDiet \in DietSteps, limb \in LimbSteps,
          bx \in BabyOffsets, rnd \in Draws :
          LET wd == reproduce(W0, i, time, dSize, dDiet, limb, bx)
          IN  /\ Finish(wd, rnd)
              /\ Observe("reproduce", wd, rnd)
              /\ lastRepro' = ReproRecord(W0, wd, mutationMetricOf(dSize, dDiet, limb))
    /\ UNCHANGED <<lastMove, terrain>>

StepHunt ==
    /\ InLoop
    /\ ~Fleeing /\ ~Reproducing
    /\ isCarnivore(critters[i])
    /\ \E rnd \in Draws :
          Finish(huntPrey(W0, i), rnd) /\ Observe("hunt", huntPrey(W0, i), rnd)
    /\ lastRepro' = NoRepro
    /\ UNCHANGED <<lastMove, terrain>>

StepSeekFood ==
    /\ InLoop
    /\ ~Fleeing /\ ~Reproducing
    /\ ~isCarnivore(critters[i])
    /\ \E rnd \in Draws :
          Finish(seekFood(W0, i), rnd) /\ Observe("seek", seekFood(W0, i), rnd)
    /\ lastRepro' = NoRepro
    /\ UNCHANGED <<lastMove, terrain>>

\* the variant of the extinction pass that marks a species with one member left
markExtinctEarly(sp) ==
    [s \in DOMAIN sp |-> IF sp[s].count <= 1 /\ ~sp[s].extinct
                          THEN [sp[s] EXCEPT !.extinct = TRUE] ELSE sp[s]]

\* after the loop: the food filter and the extinction pass
markExtinct(sp) ==
    [s \in DOMAIN sp |-> IF sp[s].count = 0 /\ ~sp[s].extinct
                          THEN [sp[s] EXCEPT !.extinct = TRUE] ELSE sp[s]]

EndTick ==
    /\ pc = "loop"
    /\ i = 0
    /\ food' = SelectSeq(food, LAMBDA f : f.energyValue > 0)
    /\ species' = markExtinct(species)
    /\ pc' = "idle"
    /\ lastRepro' = NoRepro
    /\ lastStep' = [op |-> "end"]
    /\ UNCHANGED <<lastMove, tickLog, terrain>>
    /\ UNCHANGED <<time, critters, critterGrid, foodGrid, nextId, crashed, i>>

Next == Reset \/ BeginTick \/ StepFlee \/ StepReproduce \/ StepHunt \/ StepSeekFood \/ EndTick

Spec == Init /\ [][Next]_vars

(***************************************************************************)
(* SpatialHash<T> (core/SpatialHash.ts) and the physics of CreatureSystem  *)
(* (systems/Creature.ts), on the lattice of positions in both axes.  The   *)
(* hash world h is the item list and the grid: [critters, critterGrid];    *)
(* an item is referred to by its index k in h.critters.                    *)
(***************************************************************************)
MaxEntities == 2
Margin == 1

getIndex(pos) ==
    LET col == pos.x \div GRID_CELL_SIZE
        row == pos.y \div GRID_CELL_SIZE
        c == Max(0, Min(GRID_COLS - 1, col))
        r == Max(0, Min(GRID_ROWS - 1, row))
    IN  c + r * GRID_COLS

add(h, k) ==
    LET idx == getIndex(h.critters[k].position)
    IN  [h EXCEPT !.critters[k].gridIndex = idx,
                  !.critterGrid[idx] = Append(@, h.critters[k].id)]

remove(h, k) ==
    LET idx == h.critters[k].gridIndex
    IN  IF idx \in DOMAIN h.critterGrid
        THEN [h EXCEPT !.critterGrid[idx] = RemoveFirst(@, h.critters[k].id)]
        ELSE h

\* the variant of updateSpatialIndex that leaves the item in its old cell
updateSpatialIndexNoRemove(h, k) ==
    LET newIdx == getIndex(h.critters[k].position)
    IN  IF newIdx # h.critters[k].gridIndex
        THEN [h EXCEPT !.critters[k].gridIndex = newIdx,
                       !.critterGrid[newIdx] = Append(@, h.critters[k].id)]
        ELSE h

updateSpatialIndex(h, k) ==
    LET newIdx == getIndex(h.critters[k].position)
    IN  IF newIdx # h.critters[k].gridIndex
        THEN LET h1 == remove(h, k)
             IN  [h1 EXCEPT !.critters[k].gridIndex = newIdx,
                            !.critterGrid[newIdx] = Append(@, h.critters[k].id)]
        ELSE h

\* the cells query scans: dy outermost, dx innermost, the centre included
QueryOffsets == << <<0 - 1, 0 - 1>>, <<0, 0 - 1>>, <<1, 0 - 1>>,
                   <<0 - 1, 0>>, <<0, 0>>, <<1, 0>>,
                   <<0 - 1, 1>>, <<0, 1>>, <<1, 1>> >>

query(h, centerIdx) ==
    LET col == centerIdx % GRID_COLS
        row == centerIdx \div GRID_COLS
        Ok(o) == /\ col + o[1] >= 0
                 /\ col + o[1] < GRID_COLS
                 /\ row + o[2] >= 0
                 /\ row + o[2] < GRID_ROWS
        inside == SelectSeq(QueryOffsets, Ok)
        idxs == [n \in 1 .. Len(inside) |->
                    (col + inside[n][1]) + (row + inside[n][2]) * GRID_COLS]
    IN  CellContents(h.critterGrid, idxs)

\* CreatureSystem.move: v is the velocity after friction
CreatureSystem_move(h, k, v) ==
    updateSpatialIndex([h EXCEPT !.critters[k].position = Pos(@.x + v[1], @.y + v[2])], k)

\* the variant of enforceBoundaries that leaves the position alone
enforceBoundariesVelocityOnly(h, k) == h

\* the variant of enforceBoundaries that re-enters on the opposite side
enforceBoundariesWrap(h, k) ==
    LET p == h.critters[k].position
        x1 == IF p.x < Margin THEN WORLD_WIDTH - Margin ELSE p.x
        x2 == IF p.x > WORLD_WIDTH - Margin THEN Margin ELSE x1
        y1 == IF p.y < Margin THEN WORLD_HEIGHT - Margin ELSE p.y
        y2 == IF p.y > WORLD_HEIGHT - Margin THEN Margin ELSE y1
    IN  [h EXCEPT !.critters[k].position = Pos(x2, y2)]

\* CreatureSystem.enforceBoundaries: the position part (velocity and heading
\* are inputs of the next move)
CreatureSystem_enforceBoundaries(h, k) ==
    LET p == h.critters[k].position
        x1 == IF p.x < Margin THEN Margin ELSE p.x
        x2 == IF x1 > WORLD_WIDTH - Margin THEN WORLD_WIDTH - Margin ELSE x1
        y1 == IF p.y < Margin THEN Margin ELSE p.y
        y2 == IF y1 > WORLD_HEIGHT - Margin THEN WORLD_HEIGHT - Margin ELSE y1
    IN  [h EXCEPT !.critters[k].position = Pos(x2, y2)]

HashWorld == [critters |-> critters, critterGrid |-> critterGrid]

\* the positions handed to add and to relocations: outside the world on either
\* side and both sides of the first cell boundary
HashXs == {0 - MaxOut, GRID_CELL_SIZE - 1, GRID_CELL_SIZE, WORLD_WIDTH + MaxOut}
HashYs == {0 - MaxOut, GRID_CELL_SIZE, WORLD_HEIGHT + MaxOut}
HashPositions == {Pos(x, y) : x \in HashXs, y \in HashYs}
HashVelocities == {0 - 1, 0, 1} \X {0 - 1, 0, 1}

SetHash(h) ==
    /\ critters' = h.critters
    /\ critterGrid' = h.critterGrid
    /\ UNCHANGED <<time, food, species, foodGrid, nextId, crashed, pc, i, lastRepro,
                   lastStep, tickLog>>

HashInit ==
    /\ pc = "hash"
    /\ critters = << >>
    /\ critterGrid = EmptyGrid
    /\ time = 0 /\ food = << >> /\ species = << >> /\ foodGrid = EmptyGrid
    /\ nextId = 0 /\ crashed = FALSE /\ i = 0
    /\ lastRepro = NoRepro
    /\ lastMove = NoMove
    /\ terrain = NoTerrain
    /\ lastStep = NoStep
    /\ tickLog = NoTick

\* a new item is created at pos and handed to add()
HashAdd ==
    /\ Len(critters) < MaxEntities
    /\ \E pos \in HashPositions :
          LET id == CHOOSE n \in 1 .. MaxEntities : n \notin Ids(critters)
              item == [id |-> id, position |-> pos, gridIndex |-> 0]
              h == [HashWorld EXCEPT !.critters = Append(@, item)]
          IN  /\ SetHash(add(h, Len(h.critters)))
              /\ UNCHANGED terrain
              /\ lastMove' = [op |-> "add", id |-> id]

\* remove(item), then the owner drops the item from its list
HashRemove ==
    \E k \in 1 .. Len(critters) :
       LET h == remove(HashWorld, k)
       IN  /\ SetHash([h EXCEPT !.critters = RemoveAt(@, k)])
           /\ UNCHANGED terrain
           /\ lastMove' = [op |-> "remove", id |-> critters[k].id]

\* the item's position is changed and updateSpatialIndex(item) is called
HashRelocate ==
    \E k \in 1 .. Len(critters), pos \in HashPositions :
       /\ SetHash(updateSpatialIndex([HashWorld EXCEPT !.critters[k].position = pos], k))
       /\ UNCHANGED terrain
       /\ lastMove' = [op |-> "relocate", id |-> critters[k].id,
                       formerIdx |-> critters[k].gridIndex]

\* one physics step of a critter: move, then enforceBoundaries
HashMove ==
    \E k \in 1 .. Len(critters), v \in HashVelocities :
       LET h1 == CreatureSystem_move(HashWorld, k, v)
           h2 == CreatureSystem_enforceBoundaries(h1, k)
       IN  /\ SetHash(h2)
           /\ UNCHANGED terrain
           /\ lastMove' = [op |-> "move", id |-> critters[k].id,
                           formerIdx |-> critters[k].gridIndex,
                           clamped |-> h2.critters[k].position # h1.critters[k].position]

HashNext == HashAdd \/ HashRemove \/ HashRelocate \/ HashMove

SpecHash == HashInit /\ [][HashNext]_vars

(***************************************************************************)
(* CreatureSystem.calculateMetabolism (systems/Creature.ts), as a function *)
(* of the genome, the speed, the biome under the critter and its state.    *)
(* Energy and costs are counted in ten-thousandths of an energy point,     *)
(* amphibious and defense in tenths, speed in tenths, the efficiency in    *)
(* hundredths: every product of the program is then a whole number, and    *)
(* the two divisions (by the efficiency, by 10 for the resting discount)   *)
(* round down.                                                             *)
(***************************************************************************)
ENERGY_COST_MOVE_BASE == 200
ENERGY_COST_PER_LIMB == 50
ENERGY_COST_MOUTH_SIZE == 100
ENERGY_COST_EXIST == 200
ENERGY_COST_DEFENSE == 300
ENERGY_COST_RESTING_MULTIPLIER == 3
SUFFOCATION_PENALTY == 5000
SIZE_COST == 50
DEAD_ZONE == 3
AmphibiousOne == 10

BiomeType == {"deep_ocean", "ocean", "beach", "plains", "forest", "jungle", "mountain"}
inWater(biome) == biome \in {"ocean", "deep_ocean"}

\* the variant of the suffocation term without the dead zone test
suffocationUnguarded(mismatch) == ((mismatch - DEAD_ZONE) * SUFFOCATION_PENALTY) \div AmphibiousOne

\* let suffocation = 0; if (mismatch > 0.3) suffocation = (mismatch - 0.3) * PENALTY
suffocation(mismatch) ==
    IF mismatch > DEAD_ZONE
    THEN ((mismatch - DEAD_ZONE) * SUFFOCATION_PENALTY) \div AmphibiousOne
    ELSE 0

\* efficiency, in hundredths
efficiency(g, water) ==
    IF water
    THEN LET e1 == IF 2 * g.amphibious > AmphibiousOne THEN 20 ELSE 100
         IN  IF 2 * g.amphibious < AmphibiousOne /\ g.limbCount > 0
             THEN (e1 * 12) \div 10 ELSE e1
    ELSE LET e1 == IF 2 * g.amphibious < AmphibiousOne THEN 10 ELSE 100
         IN  IF g.limbCount >= 2 /\ g.limbCount <= 6
             THEN (e1 * 11) \div 10 ELSE e1

\* totalCost of calculateMetabolism
totalCost(c) ==
    LET g == c.genome
        water == inWater(c.biome)
        envVal == IF water THEN 0 ELSE AmphibiousOne
        mismatch == Abs(g.amphibious - envVal)
        limbCost == g.limbCount * ENERGY_COST_PER_LIMB
        mouthCost == g.mouthSize * ENERGY_COST_MOUTH_SIZE
        sizeCost == (g.size * g.size) * SIZE_COST
        defenseCost == (g.defense * g.size * ENERGY_COST_DEFENSE) \div AmphibiousOne
        moveCost == (c.speed * g.size * ENERGY_COST_MOVE_BASE) \div efficiency(g, water)
        total == ENERGY_COST_EXIST + limbCost + mouthCost + moveCost + sizeCost
                   + defenseCost + suffocation(mismatch)
    IN  IF c.state = "resting"
        THEN (total * ENERGY_COST_RESTING_MULTIPLIER) \div 10
        ELSE total

CreatureSystem_calculateMetabolism(c) == [c EXCEPT !.energy = @ - totalCost(c)]

\* the genomes, speeds, biomes, states and energies the function is applied to:
\* the ends of each trait's domain and both sides of each test of the function
MetabSizes == {3, BASE_SIZE, 20}
MetabLimbs == {0, 1, 2, 7}
MetabMouths == {1, MOUTH_SIZE}
MetabDefenses == {0, AmphibiousOne}
MetabAmphibious == {0, DEAD_ZONE, 5, 7, AmphibiousOne}
MetabSpeeds == {0, 20}
MetabStates == {"wandering", "resting"}
MetabEnergies == {1, 2000}
MetabCritters ==
    [id : {1}, energy : MetabEnergies, state : MetabStates, speed : MetabSpeeds,
     biome : BiomeType,
     genome : [size : MetabSizes, limbCount : MetabLimbs, mouthSize : MetabMouths,
               defense : MetabDefenses, amphibious : MetabAmphibious]]

MetabInit ==
    /\ pc = "metabolism"
    /\ \E c \in MetabCritters : critters = <<c>>
    /\ critterGrid = EmptyGrid
    /\ time = 0 /\ food = << >> /\ species = << >> /\ foodGrid = EmptyGrid
    /\ nextId = 0 /\ crashed = FALSE /\ i = 0
    /\ lastRepro = NoRepro
    /\ lastMove = NoMove
    /\ terrain = NoTerrain
    /\ lastStep = NoStep
    /\ tickLog = NoTick

\* one tick of a live critter that neither feeds nor is struck
Metabolize ==
    /\ critters[1].energy > 0
    /\ critters' = <<CreatureSystem_calculateMetabolism(critters[1])>>
    /\ UNCHANGED terrain
    /\ lastMove' = [op |-> "metabolism", energyBefore |-> critters[1].energy,
                    cost |-> totalCost(critters[1])]
    /\ UNCHANGED <<time, food, species, critterGrid, foodGrid, nextId, crashed, pc, i,
                   lastRepro, lastStep, tickLog>>

MetabNext == Metabolize

SpecMetab == MetabInit /\ [][MetabNext]_vars

(***************************************************************************)
(* BehaviorSystem.think (systems/Behavior.ts) over the spatial hash, with  *)
(* the physics of CreatureSystem and the strike of huntPrey.  A critter    *)
(* here carries the genome fields think reads: diet (fifths), size,        *)
(* mouthSize, defense (tenths), senseRadius and reproThreshold.  The score *)
(* tests are made without the square root and the division:                *)
(*   fearScore > 0.6    is  1 - d/r > 0.6,  that is 25 d^2 < 4 r^2         *)
(*   hungerScore > 0.4  is  1 - e/T > 0.4,  that is 10 e < 6 T             *)
(*   fatigueScore > 0.5 is  e < 0.3 T,      that is 10 e < 3 T             *)
(* think is throttled by nextThinkTime in its caller; here a critter may   *)
(* think at any time.                                                      *)
(***************************************************************************)
ThinkThreshold == 10
TickCost == 1
MaxNeighbors == 2
BigSize == 13
SmallSize == 6

\* the first of the candidates at the least distance (d < minDist), 0 if none
FirstNearest(cands, from) ==
    LET d(k) == distSq(from, cands[k].position)
    IN  IF cands = << >> THEN 0
        ELSE CHOOSE k \in 1 .. Len(cands) :
                \A j \in 1 .. Len(cands) : d(k) < d(j) \/ (d(k) = d(j) /\ k <= j)

\* if (d > g.senseRadius) continue
sensed(critter, other) ==
    distSq(critter.position, other.position)
        <= critter.genome.senseRadius * critter.genome.senseRadius

\* the predator test of the neighbour scan
isPredatorOf(critter, other) ==
    /\ ~isCarnivore(critter) \/ 2 * other.genome.size > 3 * critter.genome.size
    /\ isCarnivore(other)
    /\ 10 * other.genome.size >= 8 * critter.genome.size

\* the prey test of the neighbour scan
isPreyOf(critter, other) ==
    /\ isCarnivore(critter)
    /\ other.speciesId # critter.speciesId
    /\ 10 * (critter.genome.size + critter.genome.mouthSize * 2)
          > other.genome.size * (10 + other.genome.defense)

Predators(critter, neighbors) ==
    SelectSeq(neighbors, LAMBDA o : o.id # critter.id /\ sensed(critter, o)
                                    /\ isPredatorOf(critter, o))
Preys(critter, neighbors) ==
    SelectSeq(neighbors, LAMBDA o : o.id # critter.id /\ sensed(critter, o)
                                    /\ isPreyOf(critter, o))
\* if (f.energyValue <= 0) continue; if (d < foodDist && d < g.senseRadius)
Foods(critter, foods) ==
    IF isCarnivore(critter) THEN << >>
    ELSE SelectSeq(foods, LAMBDA f : /\ f.energyValue > 0
                                     /\ distSq(critter.position, f.position)
                                          < critter.genome.senseRadius * critter.genome.senseRadius)

fearHigh(critter, predator) ==
    25 * distSq(critter.position, predator.position)
        < 4 * critter.genome.senseRadius * critter.genome.senseRadius
hungerHigh(critter) == 10 * critter.energy < 6 * critter.genome.reproThreshold
fatigueHigh(critter) == 10 * critter.energy < 3 * critter.genome.reproThreshold

\* the variant of think that serves hunger before fear
thinkHungerFirst(critter, neighbors, foods) ==
    LET preds == Predators(critter, neighbors)
        preys == Preys(critter, neighbors)
        fds == Foods(critter, foods)
        np == FirstNearest(preds, critter.position)
        ny == FirstNearest(preys, critter.position)
        nf == FirstNearest(fds, critter.position)
    IN  IF hungerHigh(critter) /\ isCarnivore(critter) /\ ny # 0
        THEN [critter EXCEPT !.state = "hunting", !.targetId = preys[ny].id]
        ELSE IF hungerHigh(critter) /\ ~isCarnivore(critter) /\ nf # 0
        THEN [critter EXCEPT !.state = "seeking_food", !.targetId = fds[nf].id]
        ELSE IF np # 0 /\ fearHigh(critter, preds[np])
        THEN [critter EXCEPT !.state = "fleeing", !.targetId = preds[np].id]
        ELSE IF fatigueHigh(critter) /\ np = 0
        THEN [critter EXCEPT !.state = "resting", !.targetId = NoId]
        ELSE IF critter.state # "wandering"
        THEN [critter EXCEPT !.state = "wandering", !.targetId = NoId]
        ELSE critter

\* think(critter, neighbors, food, time): the critter it leaves
think(critter, neighbors, foods) ==
    LET preds == Predators(critter, neighbors)
        preys == Preys(critter, neighbors)
        fds == Foods(critter, foods)
        np == FirstNearest(preds, critter.position)
        ny == FirstNearest(preys, critter.position)
        nf == FirstNearest(fds, critter.position)
    IN  IF np # 0 /\ fearHigh(critter, preds[np])
        THEN [critter EXCEPT !.state = "fleeing", !.targetId = preds[np].id]
        ELSE IF hungerHigh(critter) /\ isCarnivore(critter) /\ ny # 0
        THEN [critter EXCEPT !.state = "hunting", !.targetId = preys[ny].id]
        ELSE IF hungerHigh(critter) /\ ~isCarnivore(critter) /\ nf # 0
        THEN [critter EXCEPT !.state = "seeking_food", !.targetId = fds[nf].id]
        ELSE IF fatigueHigh(critter) /\ np = 0
        THEN [critter EXCEPT !.state = "resting", !.targetId = NoId]
        ELSE IF critter.state # "wandering"
        THEN [critter EXCEPT !.state = "wandering", !.targetId = NoId]
        ELSE critter

\* the neighbours handed to think: the objects query() returns for the cell of
\* critter k
neighborsOf(h, k) ==
    LET ids == query(h, h.critters[k].gridIndex)
    IN  [n \in 1 .. Len(ids) |-> h.critters[FindIndexById(h.critters, ids[n])]]

\* energy points of the program in the unit of this section: reproThreshold
\* (150 in BASE_GENOME) is ThinkThreshold units
BehaviorEnergy(e) == (e * ThinkThreshold) \div 150

\* the variant of the strike that credits the size bonus only
strikeBonusOnly(h, k, p) ==
    LET prey == h.critters[p]
        me == h.critters[k].id
        h1 == [h EXCEPT !.critters[k].energy = @ + BehaviorEnergy(prey.genome.size * 10)]
        h2 == remove(h1, p)
        h3 == [h2 EXCEPT !.critters = RemoveAt(@, p)]
    IN  [h3 EXCEPT !.critters[FindIndexById(h3.critters, me)].targetId = NoId]

\* the strike of huntPrey on the prey at index p: the energy transfer, the
\* removal of the prey from the index and the list, critter.targetId = null
strike(h, k, p) ==
    LET prey == h.critters[p]
        me == h.critters[k].id
        h1 == [h EXCEPT !.critters[k].energy =
                  @ + prey.energy * ENERGY_GAIN_MEAT_MULTIPLIER
                    + BehaviorEnergy(prey.genome.size * 10)]
        h2 == remove(h1, p)
        h3 == [h2 EXCEPT !.critters = RemoveAt(@, p)]
    IN  [h3 EXCEPT !.critters[FindIndexById(h3.critters, me)].targetId = NoId]

\* defense 1.0 in tenths
DefenseOne == 10

\* the critters of the scenarios: a herbivore and a carnivore of BASE_GENOME
\* size, a carnivore more than 1.5 times that size, a smaller herbivore and an
\* armoured one, each of its own species
BehaviorKinds == {"herb", "carn", "giant", "small", "armored"}
KindSpecies(kind) ==
    CASE kind = "herb" -> 0 [] kind = "carn" -> 1 [] kind = "giant" -> 2
      [] kind = "small" -> 3 [] OTHER -> 4
KindGenome(kind) ==
    [diet |-> IF kind \in {"carn", "giant"} THEN DietOne ELSE 0,
     size |-> IF kind = "giant" THEN BigSize ELSE IF kind = "small" THEN SmallSize
              ELSE BASE_SIZE,
     mouthSize |-> MOUTH_SIZE,
     defense |-> IF kind = "armored" THEN DefenseOne ELSE 0,
     senseRadius |-> SENSE_RADIUS,
     reproThreshold |-> ThinkThreshold]
BehaviorCritter(id, kind, x, e) ==
    [id |-> id, speciesId |-> KindSpecies(kind), position |-> Pos(x, Margin),
     energy |-> e, genome |-> KindGenome(kind), state |-> "wandering",
     targetId |-> NoId, gridIndex |-> getIndex(Pos(x, Margin))]

BehaviorXs == {Margin + 1, Margin + SENSE_RADIUS + 1}
BehaviorEnergies == {ThinkThreshold - 2}
FoodId == 0
\* the critter whose behaviour is followed; the others are its surroundings
Subject == 1
BehaviorFoods ==
    {<< >>, <<[id |-> FoodId, position |-> Pos(Margin, Margin),
               energyValue |-> ENERGY_GAIN_FOOD]>>}

RECURSIVE AddAll(_, _)
AddAll(h, k) == IF k > Len(h.critters) THEN h ELSE AddAll(add(h, k), k + 1)

BehaviorInit ==
    /\ pc = "behavior"
    /\ \E n \in 1 .. MaxNeighbors + 1 :
          \E kinds \in [1 .. n -> BehaviorKinds], xs \in [1 .. n -> BehaviorXs],
             es \in [1 .. n -> BehaviorEnergies] :
             LET cs == [k \in 1 .. n |-> BehaviorCritter(k, kinds[k], xs[k], es[k])]
                 h == AddAll([critters |-> cs, critterGrid |-> EmptyGrid], 1)
             IN  /\ xs[Subject] = Margin + 1
                 /\ critters = h.critters
                 /\ critterGrid = h.critterGrid
    /\ food \in BehaviorFoods
    /\ time = 0 /\ species = << >> /\ foodGrid = EmptyGrid
    /\ nextId = 0 /\ crashed = FALSE /\ i = 0
    /\ lastRepro = NoRepro
    /\ lastMove = NoMove
    /\ terrain = NoTerrain
    /\ lastStep = NoStep
    /\ tickLog = NoTick

BehaviorUnchanged ==
    UNCHANGED <<time, food, species, foodGrid, nextId, crashed, pc, i, lastRepro,
                lastStep, tickLog>>

\* critter k re-evaluates its behaviour
Think ==
    \E k \in 1 .. Len(critters) :
       LET c == critters[k]
           ns == neighborsOf(HashWorld, k)
       IN  /\ c.id = Subject
           /\ critters' = [critters EXCEPT ![k] = think(c, ns, food)]
           /\ UNCHANGED terrain
           /\ lastMove' = [op |-> "think", id |-> c.id, before |-> c,
                           neighbors |-> ns,
                           predators |-> Predators(c, ns),
                           preys |-> Preys(c, ns),
                           foods |-> Foods(c, food)]
           /\ UNCHANGED critterGrid
           /\ BehaviorUnchanged

\* the physics of one tick for critter k: move with velocity v, then
\* enforceBoundaries, then the tick's energy cost; at energy <= 0 it is removed
Tick ==
    \E k \in 1 .. Len(critters), v \in HashVelocities :
       LET h1 == CreatureSystem_move(HashWorld, k, v)
           h2 == CreatureSystem_enforceBoundaries(h1, k)
           h3 == [h2 EXCEPT !.critters[k].energy = @ - TickCost]
           h4 == IF h3.critters[k].energy <= 0
                 THEN [remove(h3, k) EXCEPT !.critters = RemoveAt(@, k)]
                 ELSE h3
       IN  /\ critters[k].id = Subject
           /\ v[2] = 0
           /\ critters' = h4.critters
           /\ critterGrid' = h4.critterGrid
           /\ UNCHANGED terrain
           /\ lastMove' = [op |-> "tick", id |-> critters[k].id, before |-> critters[k]]
           /\ BehaviorUnchanged

\* a hunting critter within attack range of its target strikes it
Strike ==
    \E k \in 1 .. Len(critters) :
       LET c == critters[k]
           p == FindIndexById(critters, c.targetId)
       IN  /\ c.id = Subject
           /\ c.state = "hunting"
           /\ c.targetId # NoId
           /\ p # 0
           /\ distSq(c.position, critters[p].position) < ATTACK_RANGE * ATTACK_RANGE
           /\ LET h == strike(HashWorld, k, p)
              IN  critters' = h.critters /\ critterGrid' = h.critterGrid
           /\ UNCHANGED terrain
           /\ lastMove' = [op |-> "strike", id |-> c.id, before |-> c, prey |-> critters[p]]
           /\ BehaviorUnchanged

BehaviorNext == Think \/ Tick \/ Strike

SpecBehavior == BehaviorInit /\ [][BehaviorNext]_vars

(***************************************************************************)
(* Properties of the engine (Spec).                                        *)
(***************************************************************************)
MembersIn(cs, s) == Cardinality({k \in 1 .. Len(cs) : cs[k].speciesId = s})
InSeq(s, v) == \E k \in 1 .. Len(s) : s[k] = v
CellsHolding(grid, id) == {c \in Cells : InSeq(grid[c], id)}
Occurrences(grid, id) == Cardinality({ck \in Slots(grid) : grid[ck[1]][ck[2]] = id})
\* a step of reset(): the only step that starts outside the loop and ends idle
IsReset == pc # "loop" /\ pc' = "idle"
Reproduced == lastRepro.parentId # NoId /\ ~lastRepro.refused

\* C1: update() never raises: every index passed to killCritter during the
\* pass over the critter list refers to an element of the list.
UpdateNeverRaises == crashed = FALSE

\* C2: after reset and after every tick the food list holds at most MAX_FOOD
\* items.
FoodWithinCap == pc = "idle" => Len(food) <= MAX_FOOD

\* C3: the critter list holds at most MAX_POPULATION critters, after reset,
\* after every tick and at every point inside a tick.
PopulationWithinCap == Len(critters) <= MAX_POPULATION

\* C3 witness: a reproduction was attempted with the list full and refused.
RefusedAtCap == lastRepro.refused /\ Len(critters) = MAX_POPULATION

\* C4: every species record has count >= 0, and every live critter has been
\* counted: the count of a species is at least the number of its live members,
\* so the decrement of a removal is matched by the increment of the spawn.
SpeciesCountNonNegative ==
    \A s \in DOMAIN species :
       species[s].count >= 0 /\ species[s].count >= MembersIn(critters, s)

\* C4 witness: inside a tick, removals have brought a species' count to 0.
CountReachedZero ==
    /\ pc = "loop"
    /\ crashed = FALSE
    /\ \E s \in DOMAIN species : species[s].count = 0 /\ ~species[s].extinct

\* an extinct species has no live member
ExtinctHasNoMember ==
    \A s \in DOMAIN species : species[s].extinct => MembersIn(critters, s) = 0
\* a step that is a reset, or that keeps every extinct species in the registry,
\* extinct and without a live member
ExtinctStays ==
    IsReset \/ \A s \in DOMAIN species :
                  species[s].extinct =>
                     /\ s \in DOMAIN species'
                     /\ species'[s].extinct
                     /\ MembersIn(critters', s) = 0

\* C5: an extinct species has no live member, and in every step other than a
\* reset a species that is extinct stays in the registry, stays extinct and
\* still has no live member: the flag goes from false to true at most once.
ExtinctionIsPermanent == []ExtinctHasNoMember /\ [][ExtinctStays]_vars

\* C5 witness: a tick runs while every species is extinct, one of them marked
\* by the extinction pass of an earlier tick.
TickAfterExtinction ==
    /\ pc = "loop"
    /\ time >= 2
    /\ Cardinality(DOMAIN species) >= 2
    /\ \A s \in DOMAIN species : species[s].extinct

\* C6: after a successful reproduction with parent energy E, the parent has E
\* less half of E, the offspring has four tenths of E (to the energy step), and
\* the two together have at most E.
ReproductionEnergy ==
    Reproduced =>
       LET E == lastRepro.energyBefore
           taken == E - lastRepro.parentEnergy
           given == lastRepro.babyEnergy
       IN  /\ 2 * taken <= E /\ E < 2 * (taken + 1)
           /\ 10 * given <= 4 * E /\ 4 * E < 10 * (given + 1)
           /\ lastRepro.parentEnergy + given <= E

\* C6 witness: a reproduction whose offspring does not have STARTING_ENERGY.
OffspringEnergySet == Reproduced /\ lastRepro.babyEnergy # STARTING_ENERGY

\* C7: a reproduction whose mutation metric does not exceed the threshold
\* keeps the parent's species and leaves the registry's key set alone; one that
\* exceeds it adds exactly one record, with the parent's species as parentId,
\* its generation + 1, count 0 and extinct false when it is set, and the
\* offspring carries the new id (and is then the one member counted).
SpeciationRule ==
    Reproduced =>
       LET r == lastRepro
           added == DOMAIN r.speciesAfter \ DOMAIN r.speciesBefore
       IN  /\ DOMAIN r.speciesBefore \subseteq DOMAIN r.speciesAfter
           /\ r.metric <= SPECIATION_THRESHOLD =>
                 r.babySpecies = r.parentSpecies /\ added = {}
           /\ r.metric > SPECIATION_THRESHOLD =>
                 /\ added = {r.babySpecies}
                 /\ r.babySpecies # r.parentSpecies
                 /\ r.speciesSet[r.babySpecies].parentId = r.parentSpecies
                 /\ r.speciesSet[r.babySpecies].generation
                       = r.speciesBefore[r.parentSpecies].generation + 1
                 /\ r.speciesSet[r.babySpecies].count = 0
                 /\ r.speciesSet[r.babySpecies].extinct = FALSE
                 /\ r.speciesAfter[r.babySpecies] =
                       [r.speciesSet[r.babySpecies] EXCEPT !.count = 1]
                 /\ \A s \in DOMAIN r.speciesBefore :
                       r.speciesSet[s] = r.speciesBefore[s]

\* C7 witness: a reproduction that founded a species.
SpeciesFounded ==
    Reproduced /\ lastRepro.metric > SPECIATION_THRESHOLD
               /\ lastRepro.babySpecies # lastRepro.parentSpecies

\* no grid cell holds a critter that is not in the list
NoGhostInGrid == GridIds(critterGrid) \subseteq Ids(critters)
\* a step that is a reset, or in which each critter that leaves the list is in
\* no cell afterwards and each species' count changes by the number of its
\* members added less the number removed
RemovalDeregisters ==
    IsReset \/
    LET gone == {k \in 1 .. Len(critters) : critters[k].id \notin Ids(critters')}
        born == {k \in 1 .. Len(critters') : critters'[k].id \notin Ids(critters)}
    IN  /\ \A k \in gone : CellsHolding(critterGrid', critters[k].id) = {}
        /\ \A s \in DOMAIN species :
              /\ s \in DOMAIN species'
              /\ species'[s].count = species[s].count
                                       - Cardinality({k \in gone : critters[k].speciesId = s})
                                       + Cardinality({k \in born : critters'[k].speciesId = s})

\* C10: no grid cell ever holds a critter that is not in the list, and every
\* removal takes the critter out of the list and out of its cell and lowers
\* the count of its species by exactly one.
RemovalIsComplete == []NoGhostInGrid /\ [][RemovalDeregisters]_vars

\* C10 witness: a predator has just killed its prey (it is hunting and its
\* target was cleared).
PreyKilled ==
    /\ crashed = FALSE
    /\ \E k \in 1 .. Len(critters) :
          critters[k].state = "hunting" /\ critters[k].targetId = NoId

\* The grid of the engine (part_003) is consistent with the list and with the
\* positions: each critter is in its gridIndex cell once, and nowhere else,
\* and gridIndex is the cell of its position.
EngineGridConsistent ==
    \A k \in 1 .. Len(critters) :
       /\ CellsHolding(critterGrid, critters[k].id) = {critters[k].gridIndex}
       /\ Occurrences(critterGrid, critters[k].id) = 1
       /\ critters[k].gridIndex = getGridIndex(critters[k].position.x, critters[k].position.y)

(***************************************************************************)
(* Properties of the spatial hash (SpecHash).                              *)
(***************************************************************************)
\* the cells of the 3x3 block around c that lie inside the grid
Block(c) ==
    {d \in Cells : /\ Abs((d % GRID_COLS) - (c % GRID_COLS)) <= 1
                   /\ Abs((d \div GRID_COLS) - (c \div GRID_COLS)) <= 1}

\* C8: after add, a change of position and updateSpatialIndex, the item is in
\* exactly one cell, once, the cell of its current position; query(c) returns
\* it only for the cells c whose 3x3 block holds that cell, and does return it
\* for the cell itself; its former cell no longer holds it.
RelocationRoundTrip ==
    lastMove.op = "relocate" =>
       LET e == critters[FindIndexById(critters, lastMove.id)]
           cur == getIndex(e.position)
       IN  /\ CellsHolding(critterGrid, e.id) = {cur}
           /\ Occurrences(critterGrid, e.id) = 1
           /\ \A c \in Cells : InSeq(query(HashWorld, c), e.id) => cur \in Block(c)
           /\ InSeq(query(HashWorld, cur), e.id)
           /\ lastMove.formerIdx # cur => ~InSeq(critterGrid[lastMove.formerIdx], e.id)

\* C8 witness: a relocation to another cell, which some query no longer sees.
RelocatedAcrossCells ==
    /\ lastMove.op = "relocate"
    /\ LET e == critters[FindIndexById(critters, lastMove.id)]
       IN  /\ lastMove.formerIdx # getIndex(e.position)
           /\ \E c \in Cells : ~InSeq(query(HashWorld, c), e.id)

\* C9: every critter is in exactly one cell of the index, once, that cell is
\* its gridIndex, and after each physics step (move, then enforceBoundaries)
\* gridIndex is the cell of its position.
GridIndexFresh ==
    \A k \in 1 .. Len(critters) :
       /\ CellsHolding(critterGrid, critters[k].id) = {critters[k].gridIndex}
       /\ Occurrences(critterGrid, critters[k].id) = 1
       /\ critters[k].gridIndex = getIndex(critters[k].position)

\* C9 witness: a physics step moved a critter into another cell and
\* enforceBoundaries then changed its position.
ClampedAfterCellChange ==
    /\ lastMove.op = "move"
    /\ lastMove.clamped
    /\ LET e == critters[FindIndexById(critters, lastMove.id)]
       IN  lastMove.formerIdx # e.gridIndex

(***************************************************************************)
(* Properties of the metabolism (SpecMetab).                               *)
(***************************************************************************)
\* C11: every call of calculateMetabolism costs a strictly positive amount and
\* leaves the critter's energy strictly below what it was, for every genome of
\* the trait domains, every speed, every biome, resting or not.
MetabolismLowersEnergy ==
    lastMove.op = "metabolism" =>
       /\ lastMove.cost > 0
       /\ critters[1].energy < lastMove.energyBefore

\* C11 witness: a resting critter at a standstill, fitted to its biome (no
\* movement cost, no suffocation, the resting discount applied), has paid.
RestingCritterPaid ==
    /\ lastMove.op = "metabolism"
    /\ critters[1].state = "resting"
    /\ critters[1].speed = 0
    /\ critters[1].genome.amphibious = 0
    /\ inWater(critters[1].biome)
    /\ critters[1].genome.limbCount = 0

(***************************************************************************)
(* Properties of the behaviour (SpecBehavior).                             *)
(***************************************************************************)
Thinker == critters[FindIndexById(critters, lastMove.id)]
Thought == lastMove.op = "think"

\* C20: think picks the state by the first rule that matches, in the order
\* fear, hunger (hunting for a carnivore with prey, seeking_food for a
\* herbivore with food), fatigue without a predator, wandering; a rule that
\* matches overrides every later one, and the target is the nearest predator,
\* prey or food of the rule, or none.
ArbitrationOrder ==
    Thought =>
       LET b == lastMove.before
           np == FirstNearest(lastMove.predators, b.position)
           ny == FirstNearest(lastMove.preys, b.position)
           nf == FirstNearest(lastMove.foods, b.position)
           fear == np # 0 /\ fearHigh(b, lastMove.predators[np])
           hunt == hungerHigh(b) /\ isCarnivore(b) /\ ny # 0
           seek == hungerHigh(b) /\ ~isCarnivore(b) /\ nf # 0
           rest == fatigueHigh(b) /\ np = 0
       IN  /\ fear => Thinker.state = "fleeing"
                      /\ Thinker.targetId = lastMove.predators[np].id
           /\ ~fear /\ hunt => Thinker.state = "hunting"
                               /\ Thinker.targetId = lastMove.preys[ny].id
           /\ ~fear /\ seek => Thinker.state = "seeking_food"
                               /\ Thinker.targetId = lastMove.foods[nf].id
           /\ ~fear /\ ~hunt /\ ~seek /\ rest =>
                 Thinker.state = "resting" /\ Thinker.targetId = NoId
           /\ ~fear /\ ~hunt /\ ~seek /\ ~rest =>
                 Thinker.state = "wandering" /\ Thinker.targetId = NoId

\* C20 witness: a hungry carnivore with prey in reach fled, because the
\* predator it sensed was close enough.
FearOverrodeHunger ==
    /\ Thought
    /\ hungerHigh(lastMove.before)
    /\ lastMove.preys # << >>
    /\ Thinker.state = "fleeing"

Ticked == lastMove.op = "tick" /\ FindIndexById(critters, lastMove.id) # 0
InWorld(pos) ==
    /\ pos.x >= 0 /\ pos.x <= WORLD_WIDTH
    /\ pos.y >= 0 /\ pos.y <= WORLD_HEIGHT
NothingSensed ==
    /\ Thought
    /\ ~isCarnivore(lastMove.before)
    /\ lastMove.predators = << >>
    /\ lastMove.foods = << >>

Struck == lastMove.op = "strike"
\* a strictly smaller, unarmored critter of another species within the senses
SmallerPrey(b, o) ==
    /\ o.id # b.id
    /\ sensed(b, o)
    /\ o.speciesId # b.speciesId
    /\ o.genome.size < b.genome.size
    /\ o.genome.defense = 0
HungryCarnivore ==
    Thought /\ isCarnivore(lastMove.before) /\ hungerHigh(lastMove.before)
Feared ==
    LET np == FirstNearest(lastMove.predators, lastMove.before.position)
    IN  np # 0 /\ fearHigh(lastMove.before, lastMove.predators[np])
StrikeFeeds ==
    Struck =>
       /\ FindIndexById(critters, lastMove.prey.id) = 0
       /\ lastMove.prey.id \notin GridIds(critterGrid)
       /\ Thinker.energy >= lastMove.before.energy + lastMove.prey.energy

\* C13 as stated: a carnivore with hunger > 0.4 that senses a strictly smaller,
\* unarmored critter of another species enters state hunting with that critter
\* as target, and its strike removes the prey and raises its energy by at least
\* the prey's energy.
HuntsSmallerPrey ==
    /\ HungryCarnivore =>
          \A n \in 1 .. Len(lastMove.neighbors) :
             SmallerPrey(lastMove.before, lastMove.neighbors[n]) =>
                /\ Thinker.state = "hunting"
                /\ Thinker.targetId = lastMove.neighbors[n].id
    /\ StrikeFeeds

\* C13: a carnivore with hunger > 0.4 and fear <= 0.6 that senses a strictly
\* smaller, unarmored critter of another species enters state hunting, with
\* that critter as target when it is the nearest prey sensed, and its strike
\* removes the prey and raises its energy by at least the prey's energy.
HuntsNearestPreyUnlessAfraid ==
    /\ HungryCarnivore /\ ~Feared =>
          \A n \in 1 .. Len(lastMove.neighbors) :
             SmallerPrey(lastMove.before, lastMove.neighbors[n]) =>
                /\ Thinker.state = "hunting"
                /\ lastMove.neighbors[n].id
                      = lastMove.preys[FirstNearest(lastMove.preys,
                                                    lastMove.before.position)].id
                   => Thinker.targetId = lastMove.neighbors[n].id
    /\ StrikeFeeds

\* C13 witness: a carnivore struck a strictly smaller, unarmored prey it had
\* been hunting and holds more than the prey's energy.
SmallerPreyEaten ==
    /\ Struck
    /\ SmallerPrey(lastMove.before, lastMove.prey)
    /\ FindIndexById(critters, lastMove.prey.id) = 0
    /\ Thinker.energy > lastMove.prey.energy

(***************************************************************************)
(* Further properties of the engine (Spec).                                *)
(***************************************************************************)
\* C14: a reproduction refused because the list already holds MAX_POPULATION
\* critters changes nothing: the critter list (the parent's energy and genome
\* with it), the species registry, the id counter and the spatial index are
\* what they were before the call.
RefusalChangesNothing ==
    lastRepro.refused =>
       /\ Len(lastRepro.worldBefore.critters) >= MAX_POPULATION
       /\ lastRepro.worldAfter.critters = lastRepro.worldBefore.critters
       /\ lastRepro.worldAfter.species = lastRepro.worldBefore.species
       /\ lastRepro.worldAfter.nextId = lastRepro.worldBefore.nextId
       /\ lastRepro.worldAfter.critterGrid = lastRepro.worldBefore.critterGrid

\* C14 witness: a parent above the reproduction threshold was refused at the
\* cap and still holds the energy it had.
RefusedParentKeptEnergy ==
    /\ lastRepro.refused
    /\ crashed = FALSE
    /\ LET k == FindIndexById(lastRepro.worldAfter.critters, lastRepro.parentId)
       IN  /\ lastRepro.worldAfter.critters[k].energy > REPRO_THRESHOLD
           /\ lastRepro.worldAfter.critters[k].energy
                 = lastRepro.worldBefore.critters[k].energy

Stepped == lastStep.op = "step"
\* the critter processed had a target that was no longer present
TargetWasGone ==
    /\ Stepped
    /\ lastStep.before.targetId # NoId
    /\ lastStep.before.targetId \notin lastStep.present

\* C15: when the entity named by a critter's targetId has been removed, then
\* after the critter's next decision it no longer names the removed entity: its
\* targetId is null (wandering) or names a different entity that is still
\* present.
DanglingTargetDropped ==
    TargetWasGone =>
       \/ lastStep.decided.targetId = NoId
       \/ /\ lastStep.decided.targetId # lastStep.before.targetId
          /\ lastStep.decided.targetId \in lastStep.presentAfter

WasReset == lastStep.op = "reset"

\* C16: reset() from any state yields a fresh world: time is 0, the list
\* holds exactly INITIAL_POPULATION critters of the root species with age 0
\* and STARTING_ENERGY, the registry holds exactly the root species (no parent,
\* generation 0, not extinct, count INITIAL_POPULATION), and the two spatial
\* indices hold exactly the new critters and the new food, once each, and no
\* entity from before the reset.
ResetIsFresh ==
    WasReset =>
       /\ time = 0
       /\ crashed = FALSE
       /\ Len(critters) = INITIAL_POPULATION
       /\ \A k \in 1 .. Len(critters) :
             /\ critters[k].speciesId = rootSpeciesId
             /\ critters[k].age = 0
             /\ critters[k].energy = STARTING_ENERGY
       /\ DOMAIN species = {rootSpeciesId}
       /\ species[rootSpeciesId].parentId = NoId
       /\ species[rootSpeciesId].generation = 0
       /\ species[rootSpeciesId].extinct = FALSE
       /\ species[rootSpeciesId].count = INITIAL_POPULATION
       /\ GridIds(critterGrid) = Ids(critters)
       /\ Cardinality(Slots(critterGrid)) = Len(critters)
       /\ GridIds(foodGrid) = Ids(food)
       /\ Cardinality(Slots(foodGrid)) = Len(food)
       /\ (Ids(critters) \cup Ids(food)) \cap lastStep.before = {}

\* C16 witness: a reset of a world that held more entities than a fresh one.
ResetAfterGrowth ==
    /\ WasReset
    /\ Cardinality(lastStep.before) > INITIAL_POPULATION + INITIAL_FOOD
    /\ Len(critters) = INITIAL_POPULATION
    /\ Len(food) = INITIAL_FOOD

LoopDone == pc = "loop" /\ i = 0

\* C18: at the end of the pass over the critter list, every critter that was
\* alive at the start of the tick and has not been removed was processed
\* exactly once: one iteration of the loop handled it and its age is one more
\* than at the start of the tick, wherever in the list predation removed
\* critters during the pass.
ProcessedExactlyOnce ==
    LoopDone =>
       \A id \in DOMAIN tickLog.ages :
          id \in Ids(critters) =>
             /\ tickLog.seen[id] = 1
             /\ CritterOf(World, id).age = tickLog.ages[id] + 1

\* C19: the critters removed during a tick are the critters whose own energy
\* was <= 0 or whose own age exceeded MAX_AGE at their own death check, and the
\* prey struck by a predator: the critter a death check removes is the critter
\* it tested, and between ticks no critter with energy <= 0 or age > MAX_AGE is
\* in the list.
RemovedAreTheDead ==
    /\ Stepped /\ lastStep.dying /\ lastStep.victim # NoId =>
          lastStep.victim = lastStep.id
    /\ pc = "idle" => \A k \in 1 .. Len(critters) : ~deathCheck(critters[k])

(***************************************************************************)
(* Further properties of the behaviour (SpecBehavior).                     *)
(***************************************************************************)
\* a carnivore whose size is at least 80% of the observer's
CarnivoreOfComparableSize(b, o) ==
    isCarnivore(o) /\ 10 * o.genome.size >= 8 * b.genome.size

\* C21: in think, another critter within the sense radius counts as a predator
\* exactly when it is a carnivore whose size is at least 80% of the
\* observer's, whatever the observer's diet, and the critter fled from is the
\* nearest of them.
PredatorIsComparableCarnivore ==
    Thought =>
       LET b == lastMove.before
       IN  /\ lastMove.predators =
                 SelectSeq(lastMove.neighbors,
                           LAMBDA o : /\ o.id # b.id
                                      /\ sensed(b, o)
                                      /\ CarnivoreOfComparableSize(b, o))
           /\ Thinker.state = "fleeing" =>
                 Thinker.targetId =
                    lastMove.predators[FirstNearest(lastMove.predators, b.position)].id

(***************************************************************************)
(* Properties of the engine (Spec), continued.                             *)
(***************************************************************************)
EnergyOfFood(fs, id) ==
    IF \E k \in 1 .. Len(fs) : fs[k].id = id
    THEN fs[CHOOSE k \in 1 .. Len(fs) : fs[k].id = id].energyValue
    ELSE 0
\* an eaten item is in no cell of the food index
EatenLeftIndex ==
    \A k \in 1 .. Len(food) : food[k].energyValue <= 0 => food[k].id \notin GridIds(foodGrid)
\* seekFood ran in the step just taken and chose a target or fed
SoughtFood == Stepped /\ lastStep.branch = "seek"
\* the target seekFood chose had energy left before the step
TargetHadEnergy ==
    SoughtFood /\ lastStep.decided.targetId # NoId
               /\ lastStep.decided.state = "seeking_food" =>
       lastStep.decided.targetId \in lastStep.present
\* a step leaves an eaten item eaten, and the energy a critter gains in
\* seekFood is the energyValue of one item that had energy and was indexed,
\* which the step leaves at 0 and out of the index
FedOnce ==
    /\ \A k \in 1 .. Len(food) :
          food[k].energyValue <= 0 => EnergyOfFood(food', food[k].id) <= 0
    /\ lastStep'.op = "step" /\ lastStep'.branch = "seek"
         /\ lastStep'.decided.energy # lastStep'.before.energy =>
          \E k \in 1 .. Len(food) :
             /\ food[k].energyValue > 0
             /\ food[k].id \in GridIds(foodGrid)
             /\ lastStep'.decided.energy = lastStep'.before.energy + food[k].energyValue
             /\ EnergyOfFood(food', food[k].id) = 0
             /\ food[k].id \notin GridIds(foodGrid')
             /\ \A j \in 1 .. Len(food) :
                   j # k => EnergyOfFood(food', food[j].id) = food[j].energyValue

\* C22: each food item transfers its energy at most once: a feeding raises the
\* eater's energy by exactly the item's energyValue, sets it to 0 and takes the
\* item out of the food index; an item at 0 stays at 0, is in no cell of the
\* index, and is never the target seekFood selects.
FoodEatenAtMostOnce == [](EatenLeftIndex /\ TargetHadEnergy) /\ [][FedOnce]_vars

\* C22 witness: a critter has fed in the step just taken and the item it ate
\* is still in the food list, at 0, while the loop goes on to other critters.
EatenItemAwaitsCleanup ==
    /\ SoughtFood
    /\ lastStep.decided.energy > lastStep.before.energy
    /\ \E k \in 1 .. Len(food) : food[k].energyValue = 0
    /\ pc = "loop" /\ i >= 1
    /\ crashed = FALSE

(***************************************************************************)
(* TerrainSystem (core/TerrainSystem.ts): the lazy initialisation of       *)
(* getBiomeAt.  terrain holds the static fields (initialized, and perm,    *)
(* stood for by the seed it was shuffled from), the number of seed() calls *)
(* made, the call stack of the calls in progress, and the number of        *)
(* getBiomeAt calls made from outside.  A frame is a function with the     *)
(* position reached in it; generateTerrainMap's position is the pixel it   *)
(* is about to classify.  A stack deeper than MaxDepth is the RangeError   *)
(* of unbounded recursion.                                                 *)
(***************************************************************************)
MapPixels == 3
MaxDepth == 6
MaxCalls == 3
TerrainSeeds == {1, 2}
NoSeed == 0

\* the coordinates getBiomeAt is asked about (one axis)
TerrainXs == 0 .. WORLD_WIDTH
Frame(fn, at, x) == [fn |-> fn, at |-> at, x |-> x]
Top(t) == t.stack[Len(t.stack)]
Push(t, f) ==
    IF Len(t.stack) >= MaxDepth THEN [t EXCEPT !.overflow = TRUE]
    ELSE [t EXCEPT !.stack = Append(@, f)]
Pop(t) == [t EXCEPT !.stack = SubSeq(@, 1, Len(@) - 1)]
At(t, at) == [t EXCEPT !.stack[Len(t.stack)].at = at]
Running(t, fn, at) ==
    /\ ~t.overflow
    /\ t.stack # << >>
    /\ Top(t).fn = fn
    /\ Top(t).at = at

\* the variant of init that calls generateTerrainMap before it sets the flag
initMapFirst(t, seed) == [t EXCEPT !.perm = seed, !.seeds = @ + 1]

\* init(), up to the call of generateTerrainMap: this.seed(Math.random());
\* this.initialized = true
init(t, seed) == [t EXCEPT !.perm = seed, !.seeds = @ + 1, !.initialized = TRUE]

TerrainInit ==
    /\ pc = "terrain"
    /\ terrain = [initialized |-> FALSE, perm |-> NoSeed, seeds |-> 0,
                  stack |-> << >>, overflow |-> FALSE, calls |-> 0,
                  returned |-> 0]
    /\ critters = << >> /\ food = << >> /\ species = << >>
    /\ critterGrid = EmptyGrid /\ foodGrid = EmptyGrid
    /\ time = 0 /\ nextId = 0 /\ crashed = FALSE /\ i = 0
    /\ lastRepro = NoRepro
    /\ lastMove = NoMove
    /\ lastStep = NoStep
    /\ tickLog = NoTick

TerrainUnchanged ==
    UNCHANGED <<time, critters, food, species, critterGrid, foodGrid, nextId,
                crashed, pc, i, lastRepro, lastMove, lastStep, tickLog>>

\* a caller outside TerrainSystem calls getBiomeAt
CallGetBiomeAt ==
    /\ pc = "terrain"
    /\ terrain.stack = << >>
    /\ ~terrain.overflow
    /\ terrain.calls < MaxCalls
    /\ \E x \in TerrainXs :
          terrain' = [Push(terrain, Frame("getBiomeAt", "test", x)) EXCEPT !.calls = @ + 1]
    /\ TerrainUnchanged

\* if (!this.initialized) this.init();
TestInitialized ==
    /\ Running(terrain, "getBiomeAt", "test")
    /\ terrain' = IF terrain.initialized
                  THEN At(terrain, "classify")
                  ELSE Push(At(terrain, "classify"), Frame("init", "seed", 0))
    /\ TerrainUnchanged

\* init(): the seed, the flag, then the call of generateTerrainMap
EnterInit ==
    /\ Running(terrain, "init", "seed")
    /\ \E seed \in TerrainSeeds :
          terrain' = Push(At(init(terrain, seed), "done"),
                          Frame("generateTerrainMap", 0, 0))
    /\ TerrainUnchanged

\* generateTerrainMap: const biome = this.getBiomeAt(wx, wy) for the next pixel
ClassifyPixel ==
    /\ ~terrain.overflow
    /\ terrain.stack # << >>
    /\ Top(terrain).fn = "generateTerrainMap"
    /\ Top(terrain).at < MapPixels
    /\ terrain' = Push(At(terrain, Top(terrain).at + 1),
                        Frame("getBiomeAt", "test", Top(terrain).at % (WORLD_WIDTH + 1)))
    /\ TerrainUnchanged

\* a call returns: getBiomeAt after classifying with the current perm,
\* generateTerrainMap after its last pixel, init after the map
Return ==
    /\ \/ Running(terrain, "getBiomeAt", "classify")
       \/ Running(terrain, "generateTerrainMap", MapPixels)
       \/ Running(terrain, "init", "done")
    /\ terrain' = [Pop(terrain) EXCEPT !.returned =
                      IF Top(terrain).fn = "getBiomeAt" /\ Len(terrain.stack) = 1
                      THEN @ + 1 ELSE @]
    /\ TerrainUnchanged

TerrainStep == TestInitialized \/ EnterInit \/ ClassifyPixel \/ Return
TerrainNext == CallGetBiomeAt \/ TerrainStep

\* every call in progress is eventually continued
SpecTerrain == TerrainInit /\ [][TerrainNext]_vars /\ WF_vars(TerrainStep)

(***************************************************************************)
(* Properties of the terrain (SpecTerrain).                                *)
(***************************************************************************)
\* init ran at most once, no recursion ran away, and once a getBiomeAt call
\* from outside has returned the system is initialised by exactly one seed()
SeededOnce ==
    /\ terrain.seeds <= 1
    /\ ~terrain.overflow
    /\ Len(terrain.stack) <= 4
    /\ terrain.returned > 0 => terrain.initialized /\ terrain.seeds = 1
\* once seeded, the permutation is kept
PermKept == terrain.seeds > 0 => terrain'.perm = terrain.perm /\ terrain'.seeds = terrain.seeds

\* C23: a getBiomeAt call on an uninitialised TerrainSystem runs init, and so
\* seed, exactly once and returns: the flag is set before generateTerrainMap
\* runs, so its getBiomeAt calls do not enter init again, and no later call
\* seeds the permutation again.
LazyInitOnce ==
    /\ []SeededOnce
    /\ [][PermKept]_vars
    /\ \A n \in 1 .. MaxCalls : (terrain.calls = n) ~> (terrain.returned = n)

\* C23 witness: a second call from outside returned after the first one had
\* initialised the system through a full terrain map.
SecondCallReturned ==
    /\ pc = "terrain"
    /\ terrain.returned = 2
    /\ terrain.seeds = 1
    /\ terrain.stack = << >>

(***************************************************************************)
(* EnvironmentSystem.update (systems/Environment.ts): the spreading from   *)
(* one sampled parent.  Growth chances are in tenths; roll is the tenth    *)
(* Math.random() fell in; room is MAX_FOOD - foodList.length when the      *)
(* parent is sampled.  lastMove holds the loop in progress.                *)
(***************************************************************************)
BIOME_GROWTH_WATER == 200
BIOME_GROWTH_PLAINS == 8
BIOME_GROWTH_FOREST == 25
SpawnLimit == 50
Tenths == 10
EnvRolls == 0 .. (Tenths - 1)
EnvRooms == {0, 3, SpawnLimit + 2}

\* the switch on the parent's biome, in tenths
growthChance(biome) ==
    CASE biome = "deep_ocean" -> (BIOME_GROWTH_WATER * Tenths) \div 2
      [] biome = "ocean" -> BIOME_GROWTH_WATER * Tenths
      [] biome = "jungle" -> BIOME_GROWTH_FOREST * Tenths * 2
      [] biome = "forest" -> BIOME_GROWTH_FOREST * Tenths
      [] biome = "plains" -> BIOME_GROWTH_PLAINS * Tenths
      [] biome = "beach" -> Tenths
      [] OTHER -> Tenths \div 2
\* Math.floor(growthChance) and growthChance % 1
guaranteedSpawns(biome) == growthChance(biome) \div Tenths
remainderChance(biome) == growthChance(biome) % Tenths
\* Math.random() < remainderChance
extraSpawn(biome, roll) == roll < remainderChance(biome)
\* Math.min(50, guaranteedSpawns + (Math.random() < remainderChance ? 1 : 0))
EnvironmentSystem_spawnsToAttempt(biome, roll) ==
    Min(SpawnLimit,
        guaranteedSpawns(biome) + (IF extraSpawn(biome, roll) THEN 1 ELSE 0))

EnvInit ==
    /\ pc = "environment"
    /\ \E biome \in BiomeType, roll \in EnvRolls, room \in EnvRooms :
          lastMove = [op |-> "spread", biome |-> biome, roll |-> roll,
                      room |-> room, k |-> 0, created |-> 0, done |-> FALSE]
    /\ terrain = NoTerrain
    /\ critters = << >> /\ food = << >> /\ species = << >>
    /\ critterGrid = EmptyGrid /\ foodGrid = EmptyGrid
    /\ time = 0 /\ nextId = 0 /\ crashed = FALSE /\ i = 0
    /\ lastRepro = NoRepro
    /\ lastStep = NoStep
    /\ tickLog = NoTick

EnvUnchanged ==
    UNCHANGED <<time, critters, food, species, critterGrid, foodGrid, nextId,
                crashed, pc, i, lastRepro, lastStep, tickLog, terrain>>

\* one iteration of the loop over k: an attempt, which creates a food item
\* when the new position is in the world and in a matching biome
SpawnAttempt ==
    /\ pc = "environment"
    /\ ~lastMove.done
    /\ lastMove.k < EnvironmentSystem_spawnsToAttempt(lastMove.biome, lastMove.roll)
    /\ lastMove.created < lastMove.room
    /\ \E accepted \in BOOLEAN :
          lastMove' = [lastMove EXCEPT !.k = @ + 1,
                                       !.created = IF accepted THEN @ + 1 ELSE @]
    /\ EnvUnchanged

\* the loop ends: k reached the number of attempts, or foodList.length >= MAX_FOOD
SpreadDone ==
    /\ pc = "environment"
    /\ ~lastMove.done
    /\ \/ lastMove.k >= EnvironmentSystem_spawnsToAttempt(lastMove.biome, lastMove.roll)
       \/ lastMove.created >= lastMove.room
    /\ lastMove' = [lastMove EXCEPT !.done = TRUE]
    /\ EnvUnchanged

EnvNext == SpawnAttempt \/ SpreadDone

SpecEnv == EnvInit /\ [][EnvNext]_vars

(***************************************************************************)
(* Properties of the environment (SpecEnv).                                *)
(***************************************************************************)
\* C24: for a parent whose biome has growth chance g the number of spawn
\* attempts is floor(g), or floor(g) + 1 when the trial on the fractional part
\* succeeds, unless the food cap stopped the loop first.
AttemptsAreGrowthChance ==
    lastMove.op = "spread" /\ lastMove.done =>
       \/ lastMove.created >= lastMove.room
       \/ lastMove.k = growthChance(lastMove.biome) \div Tenths
                         + (IF lastMove.roll < growthChance(lastMove.biome) % Tenths
                            THEN 1 ELSE 0)

(***************************************************************************)
(* The genome operations: createOffspring of GeneticSystem                 *)
(* (systems/Genetics.ts), whose mutations are those of reproduce of the    *)
(* engine plus the one of the defense, and the drift the engine of         *)
(* part_003 applies to a live critter.  A genome here carries the size     *)
(* (with its drift), diet (fifths), amphibious and defense (tenths) and    *)
(* the limb count; speed, senseRadius, limbLength, mouthSize and           *)
(* reproThreshold go through the same mutate as the size, each with its    *)
(* own floor.  A draw is 0 when the mutation is not triggered.             *)
(***************************************************************************)
BASE_LIMBS == 2
MAX_LIMBS == 8
\* |change| * 3 of an amphibious change of one tenth, |change| * 2 of a defense
\* change of two tenths, in hundredths
AmphibiousMetric == 30
DefenseMetric == 20
SizeDraws == {0 - 1, 0, 1}
DietDraws == {0 - 1, 0, 1}
AmphibiousDraws == {0 - 1, 0, 1}
DefenseDraws == {0 - 2, 0, 2}
LimbDraws == {0 - 1, 0, 1}
GeneticDraws == [size : SizeDraws, diet : DietDraws, amphibious : AmphibiousDraws,
                 defense : DefenseDraws, limb : LimbDraws]

\* Math.max(0, Math.min(1, val + change)) on a trait of [0, one]
clampUnit(val, d, one) == IF d # 0 THEN Max(0, Min(one, val + d)) ELSE val

\* mutationMetric: every triggered mutation adds the |change| it drew, whether
\* or not the floor or the clamp let the value move
metricOfDraws(parent, genome, d) ==
    SizeMetric * Abs(d.size) + DefenseMetric * Abs(d.defense)
      + AmphibiousMetric * Abs(d.amphibious)
      + LimbMetric * (IF d.limb # 0 THEN 1 ELSE 0)
      + DietMetric * Abs(d.diet)

\* const newGenome = { ...parent.genome } and the mutations of createOffspring
offspringGenome(genome, d) ==
    LET sized == mutateGenome(genome, d.size, d.diet)
    IN  [size |-> sized.size, drift |-> sized.drift, diet |-> sized.diet,
         defense |-> clampUnit(genome.defense, d.defense, DefenseOne),
         amphibious |-> clampUnit(genome.amphibious, d.amphibious, AmphibiousOne),
         limbCount |-> clampUnit(genome.limbCount, d.limb, MAX_LIMBS)]

\* createOffspring(parent, speciesMap, time, getNextId): the genome, the species
\* id of the offspring, the species map as the call leaves it and the counter
\* behind getNextId
createOffspring(parent, speciesMap, now, next, d) ==
    LET newGenome == offspringGenome(parent.genome, d)
        mutationMetric == metricOfDraws(parent.genome, newGenome, d)
        known == parent.speciesId \in DOMAIN speciesMap
        newSpeciesId == next
        newSpecies == [parentId |-> IF known THEN parent.speciesId ELSE NoId,
                       generation |-> (IF known THEN speciesMap[parent.speciesId].generation
                                       ELSE 0) + 1,
                       count |-> 0, extinct |-> FALSE, firstAppearedAt |-> now]
    IN  IF speciates(mutationMetric)
        THEN [genome |-> newGenome, speciesId |-> newSpeciesId,
              speciesMap |-> [s \in DOMAIN speciesMap \cup {newSpeciesId} |->
                                 IF s = newSpeciesId THEN newSpecies ELSE speciesMap[s]],
              nextId |-> next + 1, metric |-> mutationMetric]
        ELSE [genome |-> newGenome, speciesId |-> parent.speciesId,
              speciesMap |-> speciesMap, nextId |-> next, metric |-> mutationMetric]

\* the genomes createOffspring is applied to: each trait at BASE_GENOME or at
\* an end of its domain, as lineages of mutations leave them
GeneticGenomes ==
    [size : {SIZE_MIN, BASE_SIZE}, drift : {0}, diet : {0, DietOne},
     defense : {0, DefenseOne}, amphibious : {0, AmphibiousOne},
     limbCount : {0, BASE_LIMBS, MAX_LIMBS}]
ParentId == 1
GeneticCritter(id, speciesId, genome) == [id |-> id, speciesId |-> speciesId, genome |-> genome]

GeneticInit ==
    /\ pc = "genetics"
    /\ i = 0
    /\ time = 0
    /\ lastRepro = NoRepro
    /\ lastMove = NoMove
    /\ terrain = NoTerrain
    /\ lastStep = NoStep
    /\ tickLog = NoTick
    /\ food = << >>
    /\ critterGrid = EmptyGrid
    /\ foodGrid = EmptyGrid
    /\ crashed = FALSE
    /\ nextId = ParentId + 1
    /\ species = (rootSpeciesId :> [RootSpecies EXCEPT !.count = 1])
    /\ \E g \in GeneticGenomes :
          critters = <<GeneticCritter(ParentId, rootSpeciesId, g)>>

GeneticUnchanged ==
    UNCHANGED <<pc, i, time, lastRepro, terrain, lastStep, tickLog, food, critterGrid,
                foodGrid, crashed>>

\* the parent critters[1] reproduces: the offspring is critters[2]
CreateOffspring ==
    /\ pc = "genetics"
    /\ Len(critters) = 1
    /\ \E d \in GeneticDraws :
          LET r == createOffspring(critters[1], species, time, nextId, d)
          IN  /\ critters' = Append(critters,
                                    GeneticCritter(r.nextId, r.speciesId, r.genome))
              /\ species' = r.speciesMap
              /\ nextId' = r.nextId + 1
              /\ lastMove' = [op |-> "createOffspring", draws |-> d,
                              metric |-> r.metric, speciesBefore |-> species]
    /\ GeneticUnchanged

\* applyGeneticDrift(critter) with the draw fired, for a live critter
Drift ==
    /\ pc = "genetics"
    /\ Drifted(critters) < MaxDrift
    /\ \E k \in 1 .. Len(critters), drift \in DriftSteps \ {0} :
          critters' = applyGeneticDrift([critters |-> critters], k, drift).critters
    /\ lastMove' = [op |-> "drift"]
    /\ UNCHANGED <<species, nextId>>
    /\ GeneticUnchanged

GeneticNext == CreateOffspring \/ Drift

SpecGenetics == GeneticInit /\ [][GeneticNext]_vars

(***************************************************************************)
(* Properties of the genome operations (SpecGenetics).                     *)
(***************************************************************************)
\* C26: every live critter's genome stays inside the trait domains: size at
\* least 3, diet, amphibious and defense within [0, 1] and the limb count an
\* integer within [0, 8].
GenomeInDomain ==
    \A k \in 1 .. Len(critters) :
        LET g == critters[k].genome
        IN  /\ FineSize(g) >= SIZE_MIN * DriftUnit
            /\ g.diet \in 0 .. DietOne
            /\ g.amphibious \in 0 .. AmphibiousOne
            /\ g.defense \in 0 .. DefenseOne
            /\ g.limbCount \in 0 .. MAX_LIMBS

\* C29: an offspring whose every trait equals the parent's, a triggered
\* mutation cancelled by a clamp included, founds no species: it keeps the
\* parent's speciesId and the registry is as it was.
IdenticalOffspringFoundsNothing ==
    lastMove.op = "createOffspring" /\ Len(critters) = 2
       /\ offspringGenome(critters[1].genome, lastMove.draws) = critters[1].genome =>
          /\ critters[2].speciesId = critters[1].speciesId
          /\ species = lastMove.speciesBefore

(***************************************************************************)
(* The neighbour searches: over the 3x3 block of grid cells (part_003) and *)
(* over the whole lists (services/simulationEngine.ts), for critters that  *)
(* stand anywhere in the world and whose sense radius is BASE_GENOME's or  *)
(* has grown by mutation.                                                  *)
(***************************************************************************)
\* the candidate the scan keeps, NoId for null
NearestId(quals, critter) ==
    LET k == NearestIdx(quals, critter.position, critter.genome.senseRadius)
    IN  IF k = 0 THEN NoId ELSE quals[k].id

\* the prey scan of huntPrey and the food scan of seekFood over the grid
gridNearestPrey(w, critter) == NearestId(PreyCandidates(w, critter), critter)
gridNearestFood(w, critter) ==
    NearestId(SelectSeq(NeighborFood(w, critter.gridIndex), LAMBDA f : f.energyValue > 0),
              critter)

\* for (const other of this.critters): the scans of the engine without grids
scanNearestPredator(w, critter) ==
    NearestId(SelectSeq(w.critters,
                        LAMBDA other : /\ other.id # critter.id
                                       /\ isCarnivore(other)
                                       /\ FineSize(other.genome) >= FineSize(critter.genome)),
              critter)
scanNearestPrey(w, critter) ==
    NearestId(SelectSeq(w.critters,
                        LAMBDA other : /\ other.id # critter.id
                                       /\ other.speciesId # critter.speciesId
                                       /\ combatAdvantage(critter, other)),
              critter)
scanNearestFood(w, critter) ==
    NearestId(SelectSeq(w.food, LAMBDA f : f.energyValue > 0), critter)

\* mutate(newGenome.senseRadius, C.SENSE, 20) has no upper bound
SenseRadii == {SENSE_RADIUS, 2 * SENSE_RADIUS}
SenseXs == 0 .. (WORLD_WIDTH - 1)
MaxSensed == 2

\* the first critter is the searcher; the others and one food item are spawned
\* after it
SenseWorld(kinds, xs, radius, fx) ==
    LET n == Len(kinds)
        speciesOf(k) == IF kinds[k] = "carn" THEN CarnSpecies ELSE rootSpeciesId
        genomeOf(k) == [BASE_GENOME EXCEPT
                           !.diet = IF kinds[k] = "carn" THEN (DietOne \div 2) + 1 ELSE 0,
                           !.senseRadius = IF k = 1 THEN radius ELSE SENSE_RADIUS]
        w0 == [NewEngine EXCEPT
                  !.species = (rootSpeciesId :> RootSpecies)
                              @@ (CarnSpecies :> [parentId |-> rootSpeciesId, generation |-> 1,
                                                  count |-> 0, extinct |-> FALSE,
                                                  firstAppearedAt |-> 0]),
                  !.nextId = CarnSpecies + 1]
        RECURSIVE spawnAll(_, _)
        spawnAll(w, k) ==
            IF k > n THEN w
            ELSE spawnAll(spawnCritter(w, xs[k], PosY, speciesOf(k), genomeOf(k)), k + 1)
    IN  spawnFood(spawnAll(w0, 1), fx, PosY)

SenseWorlds ==
    {SenseWorld(kinds, xs, radius, fx) :
        kinds \in UNION {[1 .. n -> {"herb", "carn"}] : n \in 2 .. MaxSensed + 1},
        xs \in [1 .. MaxSensed + 1 -> SenseXs],
        radius \in SenseRadii, fx \in SenseXs}

SenseInit ==
    /\ pc = "sense"
    /\ i = 0
    /\ time = 0
    /\ lastRepro = NoRepro
    /\ lastMove = NoMove
    /\ terrain = NoTerrain
    /\ lastStep = NoStep
    /\ tickLog = NoTick
    /\ \E w \in SenseWorlds : InitWorld(w)

\* the searches of decideAction, huntPrey and seekFood for the first critter,
\* next to the scans of the whole lists
Search ==
    /\ pc = "sense"
    /\ lastMove = NoMove
    /\ lastMove' = [op |-> "search",
                    predator |-> findNearestPredator(World, critters[1]),
                    prey |-> gridNearestPrey(World, critters[1]),
                    food |-> gridNearestFood(World, critters[1]),
                    scanPredator |-> scanNearestPredator(World, critters[1]),
                    scanPrey |-> scanNearestPrey(World, critters[1]),
                    scanFood |-> scanNearestFood(World, critters[1])]
    /\ UNCHANGED <<time, critters, food, species, critterGrid, foodGrid, nextId, crashed,
                   pc, i, lastRepro, lastStep, tickLog, terrain>>

SenseNext == Search

SpecSense == SenseInit /\ [][SenseNext]_vars

(***************************************************************************)
(* Properties of the neighbour searches (SpecSense).                       *)
(***************************************************************************)
\* C30: the search over the 3x3 block of cells around critter.gridIndex finds
\* the same nearest predator, prey and food as a scan of the whole lists with
\* the same predicates and the critter's sense radius.
GridSearchIsExhaustive ==
    lastMove.op = "search" =>
        /\ lastMove.predator = lastMove.scanPredator
        /\ lastMove.prey = lastMove.scanPrey
        /\ lastMove.food = lastMove.scanFood

(***************************************************************************)
(* Properties of the genomes of the engine (Spec).                         *)
(***************************************************************************)
\* the critters alive before and after a step keep the genome and the species
\* they had
GenomesKept ==
    \A k \in 1 .. Len(critters), n \in 1 .. Len(critters') :
        critters'[n].id = critters[k].id =>
            /\ critters'[n].genome = critters[k].genome
            /\ critters'[n].speciesId = critters[k].speciesId

\* C25: no operation modifies the genome of a live critter after it is
\* created: every step of a tick, reproduction included, leaves the genome and
\* the speciesId of every critter that survives it unchanged.
GenomeFrozenAfterBirth == [][pc = "loop" => GenomesKept]_vars

(***************************************************************************)
(* Properties of the species registry of the engine (Spec).                *)
(***************************************************************************)
Founders == {s \in DOMAIN species : species[s].parentId = NoId}

\* one founder, of generation 0; every other species under a registered parent
\* one generation up that appeared no later
RegistryTree ==
    /\ Cardinality(Founders) = 1
    /\ \A s \in Founders : species[s].generation = 0
    /\ \A s \in DOMAIN species \ Founders :
          LET p == species[s].parentId
          IN  /\ p \in DOMAIN species
              /\ species[p].generation = species[s].generation - 1
              /\ species[p].firstAppearedAt <= species[s].firstAppearedAt

\* a step other than reset leaves the lineage of every registered species as
\* it was
LineageKept ==
    lastStep'.op # "reset" =>
        \A s \in DOMAIN species :
            /\ s \in DOMAIN species'
            /\ species'[s].parentId = species[s].parentId
            /\ species'[s].generation = species[s].generation
            /\ species'[s].firstAppearedAt = species[s].firstAppearedAt

\* C27: the species registry is a tree rooted at the founder: exactly one
\* species has no parent and it has generation 0; every other species names a
\* registered parent whose generation is one less and which appeared no later;
\* creating a species never overwrites an existing record.
RegistryIsTree == []RegistryTree /\ [][LineageKept]_vars

\* a species founded during the run by a member of a species that itself split
\* off the founder
GrandchildSpeciesFounded ==
    /\ lastRepro.parentId # NoId /\ ~lastRepro.refused
    /\ lastRepro.babySpecies # lastRepro.parentSpecies
    /\ lastRepro.babySpecies \in DOMAIN species
    /\ species[lastRepro.babySpecies].generation = 2

\* C28: for every species of the registry, count equals the number of critters
\* in the list whose speciesId is its id, and every live critter's speciesId
\* names a species of the registry.
SpeciesCountExact ==
    /\ \A s \in DOMAIN species : species[s].count = MembersIn(critters, s)
    /\ \A k \in 1 .. Len(critters) : critters[k].speciesId \in DOMAIN species

\* the death check removed a critter and its species still has live members
RemovalCounted ==
    /\ lastStep.op = "step" /\ lastStep.dying /\ lastStep.victim # NoId
    /\ ~crashed
    /\ \E s \in DOMAIN species : species[s].count > 0 /\ species[s].count < Len(critters)

====
